---- MODULE Spec2Model ----
(***************************************************************************)
(* Model of the scheduler service (src/scheduler-service): the CP-SAT      *)
(* model builder and result reducer of scheduler.py, the shift templates   *)
(* of models.py, and the generate / adjust handlers of main.py with the    *)
(* calendar record they persist through firebase_client.py.                *)
(*                                                                         *)
(* Dates are day numbers of the month being scheduled: 1 is the first day, *)
(* 0 and NumDias + 1 are dates of the neighbouring months.  A month is     *)
(* given by the Python weekday (0 = Monday .. 6 = Sunday) of its first     *)
(* day.  Times of day are <<hour, minute>> pairs, durations are minutes.   *)
(***************************************************************************)
EXTENDS Integers, Sequences, FiniteSets, TLC

\* Number of days of the month taken into the model.
NumDias == 3

\* Number of handler threads serving requests at the same time.
NumHilos == 2

VARIABLES
    inst,        \* the builder's inputs: mes, empleados, turnos, config_turnos, config_algo
    ajustes,     \* ajustes_fijos handed to generar_horarios
    pc,          \* position of generar_horarios
    shifts,      \* self.shifts: keys of the decision variables
    dvars,       \* every boolean variable of self.model
    model,       \* the constraints added to self.model
    objetivo,    \* the objective handed to self.model.Maximize
    status,      \* the solver status
    sol,         \* the solver's values of the variables
    resultado,   \* the ResultadoGeneracion returned
    db,          \* calendarios/{farmacia}/{mes} in the Realtime Database
    cfgdb,       \* what the database holds of employees and configuration
    req,         \* per handler thread: the request it is serving
    hpc,         \* per handler thread: the position of the handler
    res,         \* per handler thread: the builder's resultado
    codigo,      \* per handler thread: the HTTP status returned
    escritor,    \* history: the kind of request whose set() wrote the persisted calendar
    entrada,     \* the arguments of a library function called on its own
    salida,      \* what that call returned
    fase         \* the position of the caller of the library function

vars == <<inst, ajustes, pc, shifts, dvars, model, objetivo, status, sol,
          resultado, db, cfgdb, req, hpc, res, codigo, escritor, entrada, salida, fase>>

builderVars == <<inst, ajustes, pc, shifts, dvars, model, objetivo, status, sol, resultado>>
serviceVars == <<db, cfgdb, req, hpc, res, codigo, escritor>>
libVars == <<entrada, salida, fase>>

----------------------------------------------------------------------------
(* Small helpers *)

Rango(f) == {f[i] : i \in DOMAIN f}

RECURSIVE SumaSobre(_, _)
\* the sum of f[k] over the finite set S
SumaSobre(S, f) ==
    IF S = {} THEN 0
    ELSE LET k == CHOOSE k \in S : TRUE IN f[k] + SumaSobre(S \ {k}, f)

\* dict.get(k, defecto) on a mapping modelled as a function
Get(f, k, defecto) == IF k \in DOMAIN f THEN f[k] ELSE defecto

----------------------------------------------------------------------------
(* Calendar: scheduler.py _calcular_dias_mes, _agrupar_por_semanas *)

\* datetime.weekday() of a date of the month mes: 0 = Monday .. 6 = Sunday
Weekday(mes, fecha) == (mes + fecha + 6) % 7

\* datetime.isoweekday(): 1 = Monday .. 7 = Sunday
IsoWeekday(mes, fecha) == Weekday(mes, fecha) + 1

\* the days of the month, ascending
CalcularDiasMes(mes) == [i \in 1..NumDias |-> i]

\* the week closed on Sundays only, not at the last day
RECURSIVE AgruparDesdeSoloDomingo(_, _, _, _, _)
AgruparDesdeSoloDomingo(mes, dias, i, semanas, semana_actual) ==
    IF i > Len(dias) THEN semanas
    ELSE IF Weekday(mes, dias[i]) = 6
         THEN AgruparDesdeSoloDomingo(mes, dias, i + 1,
                                      Append(semanas, Append(semana_actual, dias[i])), <<>>)
         ELSE AgruparDesdeSoloDomingo(mes, dias, i + 1, semanas, Append(semana_actual, dias[i]))

RECURSIVE AgruparDesde(_, _, _, _, _)
AgruparDesde(mes, dias, i, semanas, semana_actual) ==
    IF i > Len(dias) THEN semanas
    ELSE LET dia == dias[i]
             nueva == Append(semana_actual, dia)
         IN IF Weekday(mes, dia) = 6 \/ dia = dias[Len(dias)]
            THEN AgruparDesde(mes, dias, i + 1, Append(semanas, nueva), <<>>)
            ELSE AgruparDesde(mes, dias, i + 1, semanas, nueva)

AgruparPorSemanas(mes, dias) == AgruparDesde(mes, dias, 1, <<>>, <<>>)

----------------------------------------------------------------------------
(* Shift templates: models.py Turno *)

\* the mask compared with weekday() (0 = Monday) where isoweekday() is meant
EsValidoParaDiaWeekday(mes, turno, fecha) ==
    IF turno.fecha_especifica # <<>>
    THEN fecha = turno.fecha_especifica[1]
    ELSE IF turno.dias_semana_validos = {}
         THEN TRUE
         ELSE Weekday(mes, fecha) \in turno.dias_semana_validos

EsValidoParaDia(mes, turno, fecha) ==
    IF turno.fecha_especifica # <<>>
    THEN fecha = turno.fecha_especifica[1]
    ELSE IF turno.dias_semana_validos = {}
         THEN TRUE
         ELSE IsoWeekday(mes, fecha) \in turno.dias_semana_validos

HoraAMinutos(hora) == hora[1] * 60 + hora[2]

\* shifts that only touch counted as overlapping
SeSolapaConCerrado(turno, otro_turno) ==
    LET inicio1 == HoraAMinutos(turno.hora_inicio)
        fin1 == HoraAMinutos(turno.hora_fin)
        inicio2 == HoraAMinutos(otro_turno.hora_inicio)
        fin2 == HoraAMinutos(otro_turno.hora_fin)
    IN ~(fin1 < inicio2 \/ fin2 < inicio1)

\* shifts that start together never counted as overlapping
SeSolapaConOtroInicio(turno, otro_turno) ==
    LET inicio1 == HoraAMinutos(turno.hora_inicio)
        fin1 == HoraAMinutos(turno.hora_fin)
        inicio2 == HoraAMinutos(otro_turno.hora_inicio)
        fin2 == HoraAMinutos(otro_turno.hora_fin)
    IN ~(fin1 <= inicio2 \/ fin2 <= inicio1) /\ inicio1 # inicio2

SeSolapaCon(turno, otro_turno) ==
    LET inicio1 == HoraAMinutos(turno.hora_inicio)
        fin1 == HoraAMinutos(turno.hora_fin)
        inicio2 == HoraAMinutos(otro_turno.hora_inicio)
        fin2 == HoraAMinutos(otro_turno.hora_fin)
    IN ~(fin1 <= inicio2 \/ fin2 <= inicio1)

\* int(turno.duracion_horas): the duration floored to whole hours
IntDuracionHoras(turno) == turno.duracion_min \div 60

----------------------------------------------------------------------------
(* The builder's inputs: scheduler.py SchedulerORTools.__init__ *)

Dias(i) == CalcularDiasMes(i.mes)
DiasSet(i) == Rango(Dias(i))
NumEmpleados(i) == Len(i.empleados)

\* self.empleado_idx: uid -> index
EmpleadoIdx(i) == [u \in {i.empleados[e].uid : e \in 1..Len(i.empleados)} |->
                     CHOOSE e \in 1..Len(i.empleados) :
                        /\ i.empleados[e].uid = u
                        /\ \A f \in 1..Len(i.empleados) : i.empleados[f].uid = u => f <= e]

\* self.turno_info: turno id -> Turno, in the order of the catalog
TurnoIds(i) == {i.turnos[k].id : k \in 1..Len(i.turnos)}
IndiceTurno(i, tid) == CHOOSE k \in 1..Len(i.turnos) : i.turnos[k].id = tid
TurnoInfo(i, tid) == i.turnos[IndiceTurno(i, tid)]

\* the key of a decision variable, and of a worked-day variable
VarS(e, d, tid) == <<"s", e, d, tid>>
VarW(e, d) == <<"w", e, d, "">>
DiaDe(v) == v[3]

\* _crear_variables: one variable per employee and valid (day, shift)
CrearVariables(i) ==
    {v \in {VarS(e, d, tid) : e \in 1..NumEmpleados(i), d \in DiasSet(i), tid \in TurnoIds(i)} :
        EsValidoParaDia(i.mes, TurnoInfo(i, v[4]), v[3])}

----------------------------------------------------------------------------
(* Coverage resolver: scheduler.py _obtener_trabajadores_necesarios *)

TrabajadoresMinimosDefecto == 1

\* the first rule, in declaration order, that applies to the weekday and start hour
\* (fecha_obj.weekday() + 1) % 7: 0 = Sunday .. 6 = Saturday
DiaSemanaCobertura(mes, fecha) == (Weekday(mes, fecha) + 1) % 7

RECURSIVE BuscarConfiguracion(_, _, _, _, _)
BuscarConfiguracion(configuraciones, k, dia_semana, hora_inicio, global) ==
    IF k > Len(configuraciones) THEN global
    ELSE LET config == configuraciones[k]
             dia_aplica == dia_semana \in config.dias_semana
             hora_aplica == hora_inicio >= config.hora_inicio /\ hora_inicio < config.hora_fin
         IN IF dia_aplica /\ hora_aplica
            THEN config.trabajadores_minimos
            ELSE BuscarConfiguracion(configuraciones, k + 1, dia_semana, hora_inicio, global)

ObtenerTrabajadoresNecesarios(i, fecha, turno) ==
    LET configuraciones == i.config_turnos.configuraciones_cobertura
        global == Get(i.config_turnos.cobertura_minima, "trabajadoresMinimos",
                      TrabajadoresMinimosDefecto)
        dia_semana == DiaSemanaCobertura(i.mes, fecha)
        hora_inicio == turno.hora_inicio[1]
    IN IF configuraciones = <<>> THEN global
       ELSE BuscarConfiguracion(configuraciones, 1, dia_semana, hora_inicio, global)

\* the attribute configuraciones_cobertura is read for the first valid (day, shift);
\* a ConfiguracionTurnos without it makes that read raise AttributeError
CoberturaLanzaExcepcion(i) ==
    /\ ~i.config_turnos.tiene_configuraciones
    /\ \E d \in DiasSet(i), tid \in TurnoIds(i) : EsValidoParaDia(i.mes, TurnoInfo(i, tid), d)

----------------------------------------------------------------------------
(* Constraints of the CP-SAT model.  A constraint is                       *)
(*   [terms |-> set of <<coefficient, variable>>, op, rhs, lit]            *)
(* and says  sum(terms) op rhs;  lit is <<>> or <<variable, value>> for a  *)
(* constraint enforced only if the variable has that value.                *)

Restr(terms, op, rhs) == [terms |-> terms, op |-> op, rhs |-> rhs, lit |-> <<>>]
RestrSi(terms, op, rhs, v, val) == [terms |-> terms, op |-> op, rhs |-> rhs, lit |-> <<v, val>>]

\* the variables that exist for an employee on a day, each with the coefficient given
TurnosDia(i, sh, e, d) == {tid \in TurnoIds(i) : VarS(e, d, tid) \in sh}
Unos(i, sh, e, d) == {<<1, VarS(e, d, tid)>> : tid \in TurnosDia(i, sh, e, d)}
Horas(i, sh, e, d) ==
    {<<IntDuracionHoras(TurnoInfo(i, tid)), VarS(e, d, tid)>> : tid \in TurnosDia(i, sh, e, d)}

\* coverage as a minimum: at least the required number
AplicarRestriccionesCoberturaMinima(i, sh) ==
    LET asignados(d, tid) == {<<1, VarS(e, d, tid)>> :
                                 e \in {f \in 1..NumEmpleados(i) : VarS(f, d, tid) \in sh}}
    IN {Restr(asignados(p[1], p[2]), "ge",
              ObtenerTrabajadoresNecesarios(i, p[1], TurnoInfo(i, p[2]))) :
          p \in {q \in DiasSet(i) \X TurnoIds(i) :
                    /\ EsValidoParaDia(i.mes, TurnoInfo(i, q[2]), q[1])
                    /\ asignados(q[1], q[2]) # {}}}

\* _aplicar_restricciones_cobertura: exactly the required number on every valid (day, shift)
AplicarRestriccionesCobertura(i, sh) ==
    LET asignados(d, tid) == {<<1, VarS(e, d, tid)>> :
                                 e \in {f \in 1..NumEmpleados(i) : VarS(f, d, tid) \in sh}}
    IN {Restr(asignados(p[1], p[2]), "eq",
              ObtenerTrabajadoresNecesarios(i, p[1], TurnoInfo(i, p[2]))) :
          p \in {q \in DiasSet(i) \X TurnoIds(i) :
                    /\ EsValidoParaDia(i.mes, TurnoInfo(i, q[2]), q[1])
                    /\ asignados(q[1], q[2]) # {}}}

\* at most one only of two shifts that start at the same time
AplicarRestriccionUnTurnoPorDiaMismoInicio(i, sh) ==
    {Restr({<<1, VarS(p[1], p[2], p[3])>>, <<1, VarS(p[1], p[2], p[4])>>}, "le", 1) :
        p \in {q \in (1..NumEmpleados(i)) \X DiasSet(i) \X TurnoIds(i) \X TurnoIds(i) :
                  /\ q[3] \in TurnosDia(i, sh, q[1], q[2])
                  /\ q[4] \in TurnosDia(i, sh, q[1], q[2])
                  /\ IndiceTurno(i, q[3]) < IndiceTurno(i, q[4])
                  /\ TurnoInfo(i, q[3]).hora_inicio = TurnoInfo(i, q[4]).hora_inicio}}

\* _aplicar_restriccion_un_turno_por_dia: of two overlapping shifts at most one
AplicarRestriccionUnTurnoPorDia(i, sh) ==
    {Restr({<<1, VarS(p[1], p[2], p[3])>>, <<1, VarS(p[1], p[2], p[4])>>}, "le", 1) :
        p \in {q \in (1..NumEmpleados(i)) \X DiasSet(i) \X TurnoIds(i) \X TurnoIds(i) :
                  /\ q[3] \in TurnosDia(i, sh, q[1], q[2])
                  /\ q[4] \in TurnosDia(i, sh, q[1], q[2])
                  /\ IndiceTurno(i, q[3]) < IndiceTurno(i, q[4])
                  /\ SeSolapaCon(TurnoInfo(i, q[3]), TurnoInfo(i, q[4]))}}

\* int(empleado.horas_maximas_*): the cap floored to whole hours
IntHoras(minutos) == minutos \div 60

\* _aplicar_restricciones_horas_maximas: daily, weekly and monthly caps
HorasSemana(i, sh, e, semana) == UNION {Horas(i, sh, e, d) : d \in Rango(semana)}

RestriccionesHorasDiarias(i, sh) ==
    {Restr(Horas(i, sh, p[1], p[2]), "le", IntHoras(i.empleados[p[1]].horas_maximas_diarias)) :
        p \in {q \in (1..NumEmpleados(i)) \X DiasSet(i) : Horas(i, sh, q[1], q[2]) # {}}}

RestriccionesHorasSemanales(i, sh) ==
    LET semanas == AgruparPorSemanas(i.mes, Dias(i))
    IN {Restr(HorasSemana(i, sh, p[1], semanas[p[2]]), "le",
              IntHoras(i.empleados[p[1]].horas_maximas_semanales)) :
          p \in {q \in (1..NumEmpleados(i)) \X (1..Len(semanas)) :
                    HorasSemana(i, sh, q[1], semanas[q[2]]) # {}}}

RestriccionesHorasMensuales(i, sh) ==
    {Restr(HorasSemana(i, sh, e, Dias(i)), "le", IntHoras(i.empleados[e].horas_maximas_mensuales)) :
        e \in {f \in 1..NumEmpleados(i) : HorasSemana(i, sh, f, Dias(i)) # {}}}

\* the caps without the daily one
AplicarRestriccionesHorasMaximasSinDiarias(i, sh) ==
    RestriccionesHorasSemanales(i, sh) \cup RestriccionesHorasMensuales(i, sh)

AplicarRestriccionesHorasMaximas(i, sh) ==
    RestriccionesHorasDiarias(i, sh) \cup RestriccionesHorasSemanales(i, sh)
        \cup RestriccionesHorasMensuales(i, sh)

\* _aplicar_restricciones_descanso: the worked-day variables it creates ...
VariablesDescanso(i, sh) ==
    {VarW(p[1], p[2]) : p \in {q \in (1..NumEmpleados(i)) \X DiasSet(i) :
                                  TurnosDia(i, sh, q[1], q[2]) # {}}}

\* the weekly bound taken as a least number of worked days
AplicarRestriccionesDescansoMinimo(i, sh) ==
    LET semanas == AgruparPorSemanas(i.mes, Dias(i))
        trabajados(e, semana) == {<<1, w>> : w \in {VarW(e, d) : d \in Rango(semana)}
                                                     \cap VariablesDescanso(i, sh)}
        max_dias_trabajados(semana) == Len(semana) - i.config_algo.dias_descanso_semana
    IN {RestrSi(Unos(i, sh, w[2], w[3]), "ge", 1, w, 1) : w \in VariablesDescanso(i, sh)}
       \cup {RestrSi(Unos(i, sh, w[2], w[3]), "eq", 0, w, 0) : w \in VariablesDescanso(i, sh)}
       \cup {Restr(trabajados(p[1], semanas[p[2]]), "ge", max_dias_trabajados(semanas[p[2]])) :
               p \in {q \in (1..NumEmpleados(i)) \X (1..Len(semanas)) :
                         /\ trabajados(q[1], semanas[q[2]]) # {}
                         /\ max_dias_trabajados(semanas[q[2]]) > 0}}

\* the weekly bound one day too generous
AplicarRestriccionesDescansoUnDiaMas(i, sh) ==
    LET semanas == AgruparPorSemanas(i.mes, Dias(i))
        trabajados(e, semana) == {<<1, w>> : w \in {VarW(e, d) : d \in Rango(semana)}
                                                     \cap VariablesDescanso(i, sh)}
        max_dias_trabajados(semana) == Len(semana) - i.config_algo.dias_descanso_semana + 1
    IN {RestrSi(Unos(i, sh, w[2], w[3]), "ge", 1, w, 1) : w \in VariablesDescanso(i, sh)}
       \cup {RestrSi(Unos(i, sh, w[2], w[3]), "eq", 0, w, 0) : w \in VariablesDescanso(i, sh)}
       \cup {Restr(trabajados(p[1], semanas[p[2]]), "le", max_dias_trabajados(semanas[p[2]])) :
               p \in {q \in (1..NumEmpleados(i)) \X (1..Len(semanas)) :
                         /\ trabajados(q[1], semanas[q[2]]) # {}
                         /\ max_dias_trabajados(semanas[q[2]]) > 1}}

\* ... and its constraints: worked <=> some shift that day; worked days per week bounded
AplicarRestriccionesDescanso(i, sh) ==
    LET semanas == AgruparPorSemanas(i.mes, Dias(i))
        trabajados(e, semana) == {<<1, w>> : w \in {VarW(e, d) : d \in Rango(semana)}
                                                     \cap VariablesDescanso(i, sh)}
        max_dias_trabajados(semana) == Len(semana) - i.config_algo.dias_descanso_semana
    IN {RestrSi(Unos(i, sh, w[2], w[3]), "ge", 1, w, 1) : w \in VariablesDescanso(i, sh)}
       \cup {RestrSi(Unos(i, sh, w[2], w[3]), "eq", 0, w, 0) : w \in VariablesDescanso(i, sh)}
       \cup {Restr(trabajados(p[1], semanas[p[2]]), "le", max_dias_trabajados(semanas[p[2]])) :
               p \in {q \in (1..NumEmpleados(i)) \X (1..Len(semanas)) :
                         /\ trabajados(q[1], semanas[q[2]]) # {}
                         /\ max_dias_trabajados(semanas[q[2]]) > 0}}

\* the holiday taken one day early
AplicarRestriccionesFestivosPersonalesDiaAntes(i, sh) ==
    {Restr({<<1, VarS(p[1], p[2], p[3])>>}, "eq", 0) :
        p \in {q \in (1..NumEmpleados(i)) \X DiasSet(i) \X TurnoIds(i) :
                  /\ q[2] + 1 \in i.empleados[q[1]].festivos_personales
                  /\ VarS(q[1], q[2], q[3]) \in sh}}

\* _aplicar_restricciones_festivos_personales: nothing on a personal holiday
AplicarRestriccionesFestivosPersonales(i, sh) ==
    {Restr({<<1, VarS(p[1], p[2], p[3])>>}, "eq", 0) :
        p \in {q \in (1..NumEmpleados(i)) \X DiasSet(i) \X TurnoIds(i) :
                  /\ q[2] \in i.empleados[q[1]].festivos_personales
                  /\ VarS(q[1], q[2], q[3]) \in sh}}

\* the pins kept without asking whether the shift variable exists
AjustesValidosSinVariable(i, sh, aj) ==
    {p \in UNION {{<<u, d, aj[u][d]>> : d \in DOMAIN aj[u]} : u \in DOMAIN aj} :
        /\ p[1] \in DOMAIN EmpleadoIdx(i)
        /\ p[2] \in DiasSet(i) /\ p[3] \in TurnoIds(i)}

\* _aplicar_ajustes_fijos: the pins that pass the three checks ...
AjustesValidos(i, sh, aj) ==
    {p \in UNION {{<<u, d, aj[u][d]>> : d \in DOMAIN aj[u]} : u \in DOMAIN aj} :
        /\ p[1] \in DOMAIN EmpleadoIdx(i)
        /\ p[2] \in DiasSet(i) /\ p[3] \in TurnoIds(i)
        /\ VarS(EmpleadoIdx(i)[p[1]], p[2], p[3]) \in sh}

\* the pins of a date that is a personal holiday of the employee are dropped
AplicarAjustesFijosSinFestivos(i, sh, aj) ==
    {Restr({<<1, VarS(EmpleadoIdx(i)[p[1]], p[2], p[3])>>}, "eq", 1) :
        p \in {q \in AjustesValidos(i, sh, aj) :
                  q[2] \notin i.empleados[EmpleadoIdx(i)[q[1]]].festivos_personales}}

\* ... are fixed to 1, and the shifts overlapping them to 0
AplicarAjustesFijos(i, sh, aj) ==
    {Restr({<<1, VarS(EmpleadoIdx(i)[p[1]], p[2], p[3])>>}, "eq", 1) : p \in AjustesValidos(i, sh, aj)}
    \cup UNION {{Restr({<<1, VarS(EmpleadoIdx(i)[p[1]], p[2], otro)>>}, "eq", 0) :
                   otro \in {o \in TurnoIds(i) :
                               /\ o # p[3]
                               /\ VarS(EmpleadoIdx(i)[p[1]], p[2], o) \in sh
                               /\ SeSolapaCon(TurnoInfo(i, p[3]), TurnoInfo(i, o))}}
                : p \in AjustesValidos(i, sh, aj)}

----------------------------------------------------------------------------
(* Objective: scheduler.py _definir_funcion_objetivo *)

PesoEquidadGuardiasDefecto == 10
PesoEquidadHorasDefecto == 8
PesoPreferenciasDefecto == 5
\* upper end of the domain of the hour-total variables
MaxHorasVar == 1000

Guardias(i, sh, e) ==
    {<<1, v>> : v \in {w \in sh : w[2] = e /\ TurnoInfo(i, w[4]).tipo = "guardia"}}

\* the employees for whom a guard-count, respectively an hour-total, variable is created
EmpleadosConGuardias(i, sh) == {e \in 1..NumEmpleados(i) : Guardias(i, sh, e) # {}}
EmpleadosConHoras(i, sh) == {e \in 1..NumEmpleados(i) : HorasSemana(i, sh, e, Dias(i)) # {}}

\* the favourite terms: one per employee, day and position in the favourites list
TerminosFavoritos(i, sh) ==
    {p \in UNION {(({e} \X DiasSet(i)) \X (1..Len(i.empleados[e].turnos_favoritos))) :
                     e \in 1..NumEmpleados(i)} :
        LET tid == i.empleados[p[1][1]].turnos_favoritos[p[2]]
        IN tid \in TurnoIds(i) /\ VarS(p[1][1], p[1][2], tid) \in sh}

\* the auxiliary integer variables restrict the model through their domains
RestriccionesObjetivo(i, sh) ==
    {Restr(Guardias(i, sh, e), "le", Len(Dias(i))) : e \in EmpleadosConGuardias(i, sh)}
    \cup {Restr(HorasSemana(i, sh, e, Dias(i)), "le", MaxHorasVar) : e \in EmpleadosConHoras(i, sh)}

\* terminos_objetivo, as what each term ranges over
DefinirFuncionObjetivo(i, sh) ==
    [guardias |-> EmpleadosConGuardias(i, sh),
     horas |-> EmpleadosConHoras(i, sh),
     favoritos |-> TerminosFavoritos(i, sh),
     definido |-> EmpleadosConGuardias(i, sh) # {} \/ EmpleadosConHoras(i, sh) # {}
                    \/ TerminosFavoritos(i, sh) # {}]

----------------------------------------------------------------------------
(* Solver: the values CP-SAT may return for a model *)

RECURSIVE Valor(_, _)
\* the value of a linear expression under the assignment x
Valor(terms, x) ==
    IF terms = {} THEN 0
    ELSE LET t == CHOOSE t \in terms : TRUE
         IN t[1] * x[t[2]] + Valor(terms \ {t}, x)

Cumple(c, x) ==
    \/ c.lit # <<>> /\ x[c.lit[1]] # c.lit[2]
    \/ LET val == Valor(c.terms, x)
       IN CASE c.op = "eq" -> val = c.rhs
            [] c.op = "le" -> val <= c.rhs
            [] c.op = "ge" -> val >= c.rhs

VariablesDe(c) == {t[2] : t \in c.terms} \cup (IF c.lit = <<>> THEN {} ELSE {c.lit[1]})

\* the last day a constraint speaks of (0 if it has no variable)
UltimoDia(c) ==
    IF VariablesDe(c) = {} THEN 0
    ELSE LET v == CHOOSE v \in VariablesDe(c) : \A w \in VariablesDe(c) : DiaDe(w) <= DiaDe(v)
         IN DiaDe(v)

RECURSIVE Extender(_, _, _)
\* the assignments of the variables of days 1..k that satisfy every constraint
\* speaking of those days only
Extender(k, vs, cs) ==
    IF k = 0 THEN {<<>>}
    ELSE LET vk == {v \in vs : DiaDe(v) = k}
             ck == {c \in cs : UltimoDia(c) = k}
         IN UNION {{p @@ q : q \in {r \in [vk -> {0, 1}] : \A c \in ck : Cumple(c, p @@ r)}} :
                      p \in Extender(k - 1, vs, cs)}

\* every assignment of the variables vs that satisfies all the constraints cs
Soluciones(vs, cs) ==
    {x \in Extender(NumDias, vs, cs) : \A c \in {d \in cs : UltimoDia(d) = 0} : Cumple(c, x)}

MaxDe(S) == CHOOSE m \in S : \A n \in S : n <= m
MinDe(S) == CHOOSE m \in S : \A n \in S : m <= n

\* the objective without the guard term
ValorObjetivoSinGuardias(i, sh, obj, x) ==
    LET h(e) == Valor(HorasSemana(i, sh, e, Dias(i)), x)
        hs == {h(e) : e \in obj.horas}
    IN (IF obj.horas = {} THEN 0
        ELSE 0 - Get(i.config_algo.pesos, "equidad_horas", PesoEquidadHorasDefecto)
                 * (MaxDe(hs) - MinDe(hs)))
       + Get(i.config_algo.pesos, "preferencias", PesoPreferenciasDefecto)
         * Cardinality({p \in obj.favoritos :
                          x[VarS(p[1][1], p[1][2], i.empleados[p[1][1]].turnos_favoritos[p[2]])] = 1})

\* the value of the objective under x
ValorObjetivo(i, sh, obj, x) ==
    LET g(e) == Valor(Guardias(i, sh, e), x)
        h(e) == Valor(HorasSemana(i, sh, e, Dias(i)), x)
        gs == {g(e) : e \in obj.guardias}
        hs == {h(e) : e \in obj.horas}
    IN (IF obj.guardias = {} THEN 0
        ELSE 0 - Get(i.config_algo.pesos, "equidad_guardias", PesoEquidadGuardiasDefecto)
                 * (MaxDe(gs) - MinDe(gs)))
       + (IF obj.horas = {} THEN 0
          ELSE 0 - Get(i.config_algo.pesos, "equidad_horas", PesoEquidadHorasDefecto)
                   * (MaxDe(hs) - MinDe(hs)))
       + Get(i.config_algo.pesos, "preferencias", PesoPreferenciasDefecto)
         * Cardinality({p \in obj.favoritos :
                          x[VarS(p[1][1], p[1][2], i.empleados[p[1][1]].turnos_favoritos[p[2]])] = 1})

\* the solutions of largest objective
Optimas(i, sh, obj, S) ==
    IF ~obj.definido \/ S = {} THEN S
    ELSE UNION {{x \in S : ValorObjetivo(i, sh, obj, x) = m} :
                   m \in {MaxDe({ValorObjetivo(i, sh, obj, x) : x \in S})}}

----------------------------------------------------------------------------
(* Result reducer: scheduler.py _construir_resultado, _construir_resultado_infactible *)

\* the variables with value 1
Asignados(sh, x) == {v \in sh : x[v] = 1}

Uid(i, e) == i.empleados[e].uid

\* self.shifts is walked in insertion order: employee, then day, then catalog order
Antes(i, v, w) ==
    \/ v[2] < w[2]
    \/ v[2] = w[2] /\ v[3] < w[3]
    \/ v[2] = w[2] /\ v[3] = w[3] /\ IndiceTurno(i, v[4]) <= IndiceTurno(i, w[4])

\* horarios[uid][dia] = turno_id is assigned for each variable at 1 in turn, so the
\* last one walked stays
UltimoAsignado(i, as, u, d) ==
    LET cand == {v \in as : Uid(i, v[2]) = u /\ v[3] = d}
    IN (CHOOSE v \in cand : \A w \in cand : Antes(i, w, v))[4]

Horarios(i, as) ==
    [u \in {Uid(i, v[2]) : v \in as} |->
        [d \in {v[3] : v \in {w \in as : Uid(i, w[2]) = u}} |-> UltimoAsignado(i, as, u, d)]]

RECURSIVE SumaDuracion(_, _)
SumaDuracion(i, S) ==
    IF S = {} THEN 0
    ELSE LET v == CHOOSE v \in S : TRUE
         IN TurnoInfo(i, v[4]).duracion_min + SumaDuracion(i, S \ {v})

HorasPorEmpleado(i, as) ==
    [u \in {Uid(i, v[2]) : v \in as} |-> SumaDuracion(i, {v \in as : Uid(i, v[2]) = u})]

\* the tally of assignments of one type, for the employees that have any
CuentaPorEmpleado(i, as, tipo) ==
    LET de_tipo == {v \in as : TurnoInfo(i, v[4]).tipo = tipo}
    IN [u \in {Uid(i, v[2]) : v \in de_tipo} |->
           Cardinality({v \in de_tipo : Uid(i, v[2]) = u})]

\* the equity score max(0, min(1, 1 - desviacion / promedio)), in hundredths rounded
\* down; hour totals are taken in half hours
Equidad(horas) ==
    LET n == Cardinality(DOMAIN horas)
        medias == [u \in DOMAIN horas |-> horas[u] \div 30]
        S == SumaSobre(DOMAIN horas, medias)
        Q == SumaSobre(DOMAIN horas, [u \in DOMAIN horas |-> medias[u] * medias[u]])
    IN IF n = 0 \/ S = 0 THEN 100
       ELSE IF n * Q - S * S >= S * S THEN 0
       ELSE 100 - (CHOOSE k \in 0..100 :
                     /\ k * k * S * S >= 10000 * (n * Q - S * S)
                     /\ \A j \in 0..100 : j * j * S * S >= 10000 * (n * Q - S * S) => k <= j)

ConstruirResultado(i, sh, x, st) ==
    [estado |-> "success",
     horarios |-> Horarios(i, Asignados(sh, x)),
     horas_por_empleado |-> HorasPorEmpleado(i, Asignados(sh, x)),
     guardias_por_empleado |-> CuentaPorEmpleado(i, Asignados(sh, x), "guardia"),
     festivos_por_empleado |-> CuentaPorEmpleado(i, Asignados(sh, x), "festivo"),
     distribucion_equitativa |-> Equidad(HorasPorEmpleado(i, Asignados(sh, x))),
     restricciones_violadas |-> 0,
     estado_solver |-> st,
     sugerencias |-> <<>>]

Sugerencias ==
    <<"Aumentar el numero de empleados disponibles",
      "Reducir la cobertura minima requerida por turno",
      "Aumentar las horas maximas permitidas (habilitar horas extra)",
      "Revisar festivos personales que puedan estar bloqueando asignaciones",
      "Reducir los dias de descanso obligatorios por semana">>

ConstruirResultadoInfactible(st) ==
    [estado |-> "infeasible",
     horarios |-> <<>>,
     horas_por_empleado |-> <<>>,
     guardias_por_empleado |-> <<>>,
     festivos_por_empleado |-> <<>>,
     distribucion_equitativa |-> 0,
     restricciones_violadas |-> 0 - 1,
     estado_solver |-> st,
     sugerencias |-> Sugerencias]

SinResultado == [estado |-> "none"]

\* the solver statuses for which a schedule is built
\* success only for the optimal status
EsExitoSoloOptimo(st) == st = "OPTIMAL"

EsExito(st) == st = "OPTIMAL" \/ st = "FEASIBLE"

Excepcion == [estado |-> "excepcion"]

\* the whole constraint model generar_horarios builds
ModeloCompleto(i, sh, aj) ==
    AplicarRestriccionesCobertura(i, sh) \cup AplicarRestriccionesHorasMaximas(i, sh)
    \cup AplicarRestriccionesDescanso(i, sh) \cup AplicarRestriccionesFestivosPersonales(i, sh)
    \cup AplicarRestriccionUnTurnoPorDia(i, sh)
    \cup (IF aj # <<>> THEN AplicarAjustesFijos(i, sh, aj) ELSE {})
    \cup RestriccionesObjetivo(i, sh)

\* generar_horarios as a whole: every resultado it may return, or the exception raised
GenerarHorarios(i, aj) ==
    IF CoberturaLanzaExcepcion(i) THEN {Excepcion}
    ELSE LET sh == CrearVariables(i)
             obj == DefinirFuncionObjetivo(i, sh)
         IN UNION {{ConstruirResultado(i, sh, x, "OPTIMAL") : x \in Optimas(i, sh, obj, S)}
                   \cup (IF obj.definido
                         THEN {ConstruirResultado(i, sh, x, "FEASIBLE") : x \in S} ELSE {})
                   \cup (IF S = {} THEN {ConstruirResultadoInfactible("INFEASIBLE")} ELSE {})
                   \cup {ConstruirResultadoInfactible("UNKNOWN")} :
                      S \in {Soluciones(sh \cup VariablesDescanso(i, sh),
                                        ModeloCompleto(i, sh, aj))}}

----------------------------------------------------------------------------
(* The inputs the builder is run on *)

Turno(id, inicio, fin, minutos, tipo, dias, fecha) ==
    [id |-> id, hora_inicio |-> inicio, hora_fin |-> fin, duracion_min |-> minutos,
     tipo |-> tipo, dias_semana_validos |-> dias, fecha_especifica |-> fecha]

TurnoM == Turno("M", <<9, 0>>, <<13, 0>>, 240, "laboral", {}, <<>>)
TurnoA == Turno("A", <<13, 0>>, <<17, 0>>, 240, "laboral", {}, <<>>)
\* four and a half hours, overlapping both M and A
TurnoX == Turno("X", <<11, 0>>, <<15, 30>>, 270, "laboral", {}, <<>>)
\* Monday to Friday only
TurnoL == Turno("L", <<9, 0>>, <<13, 0>>, 240, "laboral", 1..5, <<>>)
\* a guard on the second day of the month
TurnoG == Turno("G", <<13, 0>>, <<17, 0>>, 240, "guardia", {}, <<2>>)

Catalogos == {<<>>, <<TurnoM, TurnoA>>, <<TurnoM, TurnoX, TurnoA>>, <<TurnoL, TurnoG>>}

Empleado(uid, diarias, semanales, mensuales, festivos, favoritos) ==
    [uid |-> uid, horas_maximas_diarias |-> diarias, horas_maximas_semanales |-> semanales,
     horas_maximas_mensuales |-> mensuales, festivos_personales |-> festivos,
     turnos_favoritos |-> favoritos]

\* caps are minutes: 480 is 8 h a day, 2400 is 40 h a week, 9600 is 160 h a month
Plantillas ==
    {<<Empleado("e1", 480, 2400, 9600, {}, <<>>)>>,
     <<Empleado("e1", 480, 2400, 9600, {}, <<"M">>), Empleado("e2", 480, 2400, 9600, {}, <<>>)>>,
     <<Empleado("e1", 480, 2400, 9600, {1}, <<>>), Empleado("e2", 480, 2400, 9600, {0, 2}, <<>>)>>,
     <<Empleado("e1", 270, 2400, 9600, {}, <<>>), Empleado("e2", 480, 2400, 9600, {}, <<>>)>>,
     <<Empleado("e1", 480, 480, 9600, {}, <<>>), Empleado("e2", 480, 2400, 510, {}, <<>>)>>}

Regla(dias, inicio, fin, minimos) ==
    [dias_semana |-> dias, hora_inicio |-> inicio, hora_fin |-> fin,
     trabajadores_minimos |-> minimos]

\* ConfiguracionTurnos: with or without the attribute configuraciones_cobertura
Coberturas ==
    {[tiene_configuraciones |-> FALSE, configuraciones_cobertura |-> <<>>,
      cobertura_minima |-> [trabajadoresMinimos |-> 1]],
     [tiene_configuraciones |-> TRUE, configuraciones_cobertura |-> <<>>,
      cobertura_minima |-> [trabajadoresMinimos |-> 1]],
     [tiene_configuraciones |-> TRUE, configuraciones_cobertura |-> <<>>,
      cobertura_minima |-> [trabajadoresMinimos |-> 2]],
     [tiene_configuraciones |-> TRUE,
      configuraciones_cobertura |-> <<Regla({0, 6}, 9, 12, 2), Regla(0..6, 11, 14, 0)>>,
      cobertura_minima |-> <<>>]}

\* the Python weekday of the first day: Monday, Saturday, Sunday
Meses == {0, 5, 6}

DiasDescanso == {1, 2}

Instancias ==
    [mes : Meses, empleados : Plantillas, turnos : Catalogos, config_turnos : Coberturas,
     config_algo : [dias_descanso_semana : DiasDescanso, pesos : {<<>>}]]

\* ajustes_fijos: uid -> (date -> turno id); <<>> is None
AjustesPosibles ==
    {<<>>,
     [u \in {"e1"} |-> [d \in {1} |-> "M"]],
     [u \in {"e1"} |-> [d \in {2} |-> "X"]],
     [u \in {"e1", "e9"} |-> IF u = "e1" THEN [d \in {1} |-> "G"] ELSE [d \in {1} |-> "M"]],
     [u \in {"e2"} |-> [d \in {0, 2} |-> IF d = 0 THEN "M" ELSE "Z"]],
     [u \in {"e1", "e9"} |-> IF u = "e1" THEN [d \in {1, 2} |-> "G"] ELSE [d \in {1} |-> "M"]]}

----------------------------------------------------------------------------
(* generar_horarios of the builder, one step per method it calls *)

ObjetivoVacio == [guardias |-> {}, horas |-> {}, favoritos |-> {}, definido |-> FALSE]

InitBuilder ==
    /\ pc = "crear_variables"
    /\ shifts = {}
    /\ dvars = {}
    /\ model = {}
    /\ objetivo = ObjetivoVacio
    /\ status = "none"
    /\ sol = <<>>
    /\ resultado = SinResultado

PasoCrearVariables ==
    /\ pc = "crear_variables"
    /\ shifts' = CrearVariables(inst)
    /\ dvars' = CrearVariables(inst)
    /\ pc' = "cobertura"
    /\ UNCHANGED <<inst, ajustes, model, objetivo, status, sol, resultado>>
    /\ UNCHANGED <<serviceVars, libVars>>

PasoCobertura ==
    /\ pc = "cobertura"
    /\ IF CoberturaLanzaExcepcion(inst)
       THEN pc' = "excepcion" /\ model' = model
       ELSE pc' = "horas_maximas" /\ model' = model \cup AplicarRestriccionesCobertura(inst, shifts)
    /\ UNCHANGED <<inst, ajustes, shifts, dvars, objetivo, status, sol, resultado>>
    /\ UNCHANGED <<serviceVars, libVars>>

PasoHorasMaximas ==
    /\ pc = "horas_maximas"
    /\ model' = model \cup AplicarRestriccionesHorasMaximas(inst, shifts)
    /\ pc' = "descanso"
    /\ UNCHANGED <<inst, ajustes, shifts, dvars, objetivo, status, sol, resultado>>
    /\ UNCHANGED <<serviceVars, libVars>>

PasoDescanso ==
    /\ pc = "descanso"
    /\ dvars' = dvars \cup VariablesDescanso(inst, shifts)
    /\ model' = model \cup AplicarRestriccionesDescanso(inst, shifts)
    /\ pc' = "festivos"
    /\ UNCHANGED <<inst, ajustes, shifts, objetivo, status, sol, resultado>>
    /\ UNCHANGED <<serviceVars, libVars>>

PasoFestivosPersonales ==
    /\ pc = "festivos"
    /\ model' = model \cup AplicarRestriccionesFestivosPersonales(inst, shifts)
    /\ pc' = "un_turno_por_dia"
    /\ UNCHANGED <<inst, ajustes, shifts, dvars, objetivo, status, sol, resultado>>
    /\ UNCHANGED <<serviceVars, libVars>>

PasoUnTurnoPorDia ==
    /\ pc = "un_turno_por_dia"
    /\ model' = model \cup AplicarRestriccionUnTurnoPorDia(inst, shifts)
    /\ pc' = "ajustes_fijos"
    /\ UNCHANGED <<inst, ajustes, shifts, dvars, objetivo, status, sol, resultado>>
    /\ UNCHANGED <<serviceVars, libVars>>

PasoAjustesFijos ==
    /\ pc = "ajustes_fijos"
    /\ model' = IF ajustes # <<>> THEN model \cup AplicarAjustesFijos(inst, shifts, ajustes)
                ELSE model
    /\ pc' = "objetivo"
    /\ UNCHANGED <<inst, ajustes, shifts, dvars, objetivo, status, sol, resultado>>
    /\ UNCHANGED <<serviceVars, libVars>>

PasoObjetivo ==
    /\ pc = "objetivo"
    /\ model' = model \cup RestriccionesObjetivo(inst, shifts)
    /\ objetivo' = DefinirFuncionObjetivo(inst, shifts)
    /\ pc' = "resolver"
    /\ UNCHANGED <<inst, ajustes, shifts, dvars, status, sol, resultado>>
    /\ UNCHANGED <<serviceVars, libVars>>

\* solver.Solve: optimal, or with the time limit reached merely feasible or unknown;
\* infeasible only if the model has no solution
Resolver ==
    /\ pc = "resolver"
    /\ \E S \in {Soluciones(dvars, model)} :
          \/ /\ S # {}
             /\ status' = "OPTIMAL"
             /\ sol' \in Optimas(inst, shifts, objetivo, S)
          \/ /\ S # {}
             /\ objetivo.definido
             /\ status' = "FEASIBLE"
             /\ sol' \in S
          \/ /\ S = {}
             /\ status' = "INFEASIBLE"
             /\ sol' = <<>>
          \/ /\ status' = "UNKNOWN"
             /\ sol' = <<>>
    /\ pc' = "resultado"
    /\ UNCHANGED <<inst, ajustes, shifts, dvars, model, objetivo, resultado>>
    /\ UNCHANGED <<serviceVars, libVars>>

PasoResultado ==
    /\ pc = "resultado"
    /\ resultado' = IF EsExito(status)
                    THEN ConstruirResultado(inst, shifts, sol, status)
                    ELSE ConstruirResultadoInfactible(status)
    /\ pc' = "fin"
    /\ UNCHANGED <<inst, ajustes, shifts, dvars, model, objetivo, status, sol>>
    /\ UNCHANGED <<serviceVars, libVars>>

SinSolicitud == [tipo |-> "none"]

ServicioParado ==
    /\ db = <<>>
    /\ cfgdb = <<>>
    /\ req = <<>>
    /\ hpc = <<>>
    /\ res = <<>>
    /\ codigo = <<>>
    /\ escritor = "none"

\* no library function is being called on its own
BibliotecaParada ==
    /\ entrada = <<>>
    /\ salida = <<>>
    /\ fase = "none"

Init ==
    /\ inst \in Instancias
    /\ ajustes \in AjustesPosibles
    /\ InitBuilder
    /\ ServicioParado
    /\ BibliotecaParada

Next ==
    \/ PasoCrearVariables
    \/ PasoCobertura
    \/ PasoHorasMaximas
    \/ PasoDescanso
    \/ PasoFestivosPersonales
    \/ PasoUnTurnoPorDia
    \/ PasoAjustesFijos
    \/ PasoObjetivo
    \/ Resolver
    \/ PasoResultado

Spec == Init /\ [][Next]_vars

----------------------------------------------------------------------------
(* Properties of the builder *)

\* generar_horarios has returned a result with estado 'success'
Exito == pc = "fin" /\ resultado.estado = "success"

\* the employees that have a variable for (d, tid), and those whose variable is 1
ConVariable(d, tid) == {e \in 1..NumEmpleados(inst) : VarS(e, d, tid) \in shifts}
EnTurno(d, tid) == {e \in ConVariable(d, tid) : sol[VarS(e, d, tid)] = 1}

\* the shifts an employee holds on a day
TurnosDe(e, d) == {tid \in TurnoIds(inst) : VarS(e, d, tid) \in shifts /\ sol[VarS(e, d, tid)] = 1}

\* the floored hours an employee works on a set of days
HorasEnteras(e, D) ==
    SumaSobre({v \in shifts : v[2] = e /\ v[3] \in D /\ sol[v] = 1},
              [v \in shifts |-> IntDuracionHoras(TurnoInfo(inst, v[4]))])

\* C1: in a successful result every (date, shift) that has a variable has exactly
\* required(date, shift) employees at 1.
C1_CoberturaExacta ==
    Exito => \A d \in DiasSet(inst), tid \in TurnoIds(inst) :
                ConVariable(d, tid) # {} =>
                    Cardinality(EnTurno(d, tid))
                        = ObtenerTrabajadoresNecesarios(inst, d, TurnoInfo(inst, tid))

\* a success in which a shift needing one of two employees has exactly one, and
\* another needing both has both
C1_Witness ==
    /\ Exito
    /\ \E d \in DiasSet(inst), tid \in TurnoIds(inst) :
          /\ Cardinality(ConVariable(d, tid)) = 2
          /\ ObtenerTrabajadoresNecesarios(inst, d, TurnoInfo(inst, tid)) = 1
          /\ Cardinality(EnTurno(d, tid)) = 1
    /\ \E d \in DiasSet(inst), tid \in TurnoIds(inst) :
          /\ ObtenerTrabajadoresNecesarios(inst, d, TurnoInfo(inst, tid)) = 2
          /\ Cardinality(EnTurno(d, tid)) = 2

\* C2: in a successful result no employee holds two overlapping shifts on one date.
C2_SinSolapamiento ==
    Exito => \A e \in 1..NumEmpleados(inst), d \in DiasSet(inst) :
                \A t1 \in TurnosDe(e, d), t2 \in TurnosDe(e, d) :
                    t1 # t2 => ~SeSolapaCon(TurnoInfo(inst, t1), TurnoInfo(inst, t2))

\* a success in which an employee holds the two abutting shifts M and A on one date
\* while the catalog also has X, which overlaps both
C2_Witness ==
    /\ Exito
    /\ \E e \in 1..NumEmpleados(inst), d \in DiasSet(inst) :
          /\ TurnosDe(e, d) = {"M", "A"}
          /\ VarS(e, d, "X") \in shifts
          /\ SeSolapaCon(TurnoInfo(inst, "M"), TurnoInfo(inst, "X"))
          /\ ~SeSolapaCon(TurnoInfo(inst, "M"), TurnoInfo(inst, "A"))

\* C3: in a successful result the floored hours of every employee stay within the
\* daily cap on every date, the weekly cap in every week group, the monthly cap.
C3_HorasMaximas ==
    Exito => \A e \in 1..NumEmpleados(inst) :
                /\ \A d \in DiasSet(inst) :
                      HorasEnteras(e, {d}) * 60 <= inst.empleados[e].horas_maximas_diarias
                /\ \A k \in DOMAIN AgruparPorSemanas(inst.mes, Dias(inst)) :
                      HorasEnteras(e, Rango(AgruparPorSemanas(inst.mes, Dias(inst))[k])) * 60
                          <= inst.empleados[e].horas_maximas_semanales
                /\ HorasEnteras(e, DiasSet(inst)) * 60 <= inst.empleados[e].horas_maximas_mensuales

\* a success over a month of two week groups in which one employee works exactly the
\* weekly cap in a short week and another exactly the floored monthly cap
C3_Witness ==
    /\ Exito
    /\ Len(AgruparPorSemanas(inst.mes, Dias(inst))) = 2
    /\ \E e \in 1..NumEmpleados(inst), k \in DOMAIN AgruparPorSemanas(inst.mes, Dias(inst)) :
          /\ Len(AgruparPorSemanas(inst.mes, Dias(inst))[k]) < 7
          /\ HorasEnteras(e, Rango(AgruparPorSemanas(inst.mes, Dias(inst))[k])) * 60
                = inst.empleados[e].horas_maximas_semanales
    /\ \E e \in 1..NumEmpleados(inst) :
          HorasEnteras(e, DiasSet(inst)) = IntHoras(inst.empleados[e].horas_maximas_mensuales)

\* C4: in a successful result nobody has a shift on one of their personal holidays.
C4_FestivosPersonales ==
    Exito => \A e \in 1..NumEmpleados(inst), d \in DiasSet(inst) :
                d \in inst.empleados[e].festivos_personales => TurnosDe(e, d) = {}

\* a success in which an employee has a personal holiday in the month, on a date
\* that has shifts, and works on another date
C4_Witness ==
    /\ Exito
    /\ \E e \in 1..NumEmpleados(inst), d \in DiasSet(inst), f \in DiasSet(inst) :
          /\ f \in inst.empleados[e].festivos_personales
          /\ \E tid \in TurnoIds(inst) : VarS(e, f, tid) \in shifts
          /\ TurnosDe(e, d) # {}

\* the pins the claim calls valid: employee known, date in the month, template valid
PinsValidos ==
    {p \in UNION {{<<u, d, ajustes[u][d]>> : d \in DOMAIN ajustes[u]} : u \in DOMAIN ajustes} :
        /\ \E e \in 1..NumEmpleados(inst) : Uid(inst, e) = p[1]
        /\ p[2] \in DiasSet(inst)
        /\ p[3] \in TurnoIds(inst)
        /\ EsValidoParaDia(inst.mes, TurnoInfo(inst, p[3]), p[2])}

\* (u, d, tid) is in the returned mapping employee -> date -> shift
EnHorarios(u, d, tid) ==
    /\ u \in DOMAIN resultado.horarios
    /\ d \in DOMAIN resultado.horarios[u]
    /\ resultado.horarios[u][d] = tid

\* C5: in a successful result every valid pin is in the returned mapping and no shift
\* overlapping the pinned one is held by that employee on that date.
C5_PinsRespetados ==
    Exito => \A p \in PinsValidos :
                /\ EnHorarios(p[1], p[2], p[3])
                /\ \A e \in 1..NumEmpleados(inst), o \in TurnoIds(inst) :
                      (Uid(inst, e) = p[1] /\ o # p[3]
                         /\ SeSolapaCon(TurnoInfo(inst, p[3]), TurnoInfo(inst, o)))
                      => o \notin TurnosDe(e, p[2])

\* the valid pins whose date is a personal holiday of the pinned employee
PinsEnFestivo ==
    {p \in PinsValidos :
        p[2] \in inst.empleados[EmpleadoIdx(inst)[p[1]]].festivos_personales}

\* C30: once the pin step has run, the model holds for every valid pin on a
\* personal holiday of its employee both "variable = 1" and "variable = 0"; the
\* solver finds no solution and the build returns estado 'infeasible' with an
\* empty schedule.
C30_PinEnFestivoInfactible ==
    PinsEnFestivo # {} =>
        /\ pc \in {"objetivo", "resolver", "resultado", "fin"} =>
              \A p \in PinsEnFestivo :
                 /\ Restr({<<1, VarS(EmpleadoIdx(inst)[p[1]], p[2], p[3])>>}, "eq", 1) \in model
                 /\ Restr({<<1, VarS(EmpleadoIdx(inst)[p[1]], p[2], p[3])>>}, "eq", 0) \in model
        /\ pc \in {"resultado", "fin"} => status \in {"INFEASIBLE", "UNKNOWN"} /\ sol = <<>>
        /\ pc = "fin" => resultado.estado = "infeasible" /\ resultado.horarios = <<>>

\* the build of a request with a pin on a personal holiday has returned, and the
\* same instance without the pins has a schedule
C30_Witness ==
    /\ pc = "fin"
    /\ PinsEnFestivo # {}
    /\ status = "INFEASIBLE"
    /\ resultado.estado = "infeasible"
    /\ Soluciones(dvars, ModeloCompleto(inst, shifts, <<>>)) # {}

\* every pin of the request, and those that are not valid
PinsPedidos ==
    UNION {{<<u, d, ajustes[u][d]>> : d \in DOMAIN ajustes[u]} : u \in DOMAIN ajustes}

PinsDescartados == PinsPedidos \ PinsValidos

\* the request's pins without the discarded ones; <<>> if none is left
AjustesSinDescartados ==
    [u \in {p[1] : p \in PinsValidos} |->
        [d \in {p[2] : p \in {q \in PinsValidos : q[1] = u}} |-> ajustes[u][d]]]

\* C19: once the pin step has run over a request with a pin whose employee is
\* unknown, whose date is outside the month, whose shift is not in the catalog or
\* whose template is not valid on the date, no constraint of the model mentions
\* such a pin, the finished model is the one built from the other pins alone,
\* and the build ends with a result.
C19_PinsDescartados ==
    (PinsDescartados # {} /\ pc \in {"objetivo", "resolver", "resultado", "fin"}) =>
        /\ \A p \in PinsDescartados, c \in model :
              \A e \in 1..NumEmpleados(inst) :
                 Uid(inst, e) = p[1] => \A t \in c.terms : t[2] # VarS(e, p[2], p[3])
        /\ pc # "objetivo" => model = ModeloCompleto(inst, shifts, AjustesSinDescartados)
        /\ pc = "fin" => resultado.estado \in {"success", "infeasible"}

\* a successful build of a request with a pin that is kept, a pin of a guard
\* shift on a date it is not valid on, and a pin of an unknown employee
C19_Witness ==
    /\ Exito
    /\ PinsValidos # {}
    /\ \E p \in PinsDescartados : p[1] \notin {Uid(inst, e) : e \in 1..NumEmpleados(inst)}
    /\ \E p \in PinsDescartados :
          /\ p[1] \in {Uid(inst, e) : e \in 1..NumEmpleados(inst)}
          /\ p[3] \in TurnoIds(inst)
          /\ ~EsValidoParaDia(inst.mes, TurnoInfo(inst, p[3]), p[2])

\* C6: in a successful result (employee, date, shift) is in the returned mapping if
\* and only if its variable is 1.
C6_ResultadoCompleto ==
    Exito => \A v \in shifts : sol[v] = 1 <=> EnHorarios(Uid(inst, v[2]), v[3], v[4])

\* the days of a week on which an employee holds some shift
DiasTrabajados(e, semana) == {d \in Rango(semana) : TurnosDe(e, d) # {}}

\* C7: in a successful result an employee works at most |W| - rest days of a week W
\* when that number is positive; for the other weeks the model holds no constraint
\* on the worked days.
C7_DescansoSemanal ==
    LET semanas == AgruparPorSemanas(inst.mes, Dias(inst))
        maximo(k) == Len(semanas[k]) - inst.config_algo.dias_descanso_semana
    IN /\ Exito => \A e \in 1..NumEmpleados(inst), k \in DOMAIN semanas :
                      maximo(k) > 0 => Cardinality(DiasTrabajados(e, semanas[k])) <= maximo(k)
       /\ \A e \in 1..NumEmpleados(inst), k \in DOMAIN semanas :
             maximo(k) <= 0 =>
                ~\E c \in model : /\ c.lit = <<>>
                                  /\ \E d \in Rango(semanas[k]) : <<1, VarW(e, d)>> \in c.terms

\* a success in which an employee works exactly |W| - rest days of one week and every
\* day of a short week that has no more days than rest days
C7_Witness ==
    LET semanas == AgruparPorSemanas(inst.mes, Dias(inst))
        maximo(k) == Len(semanas[k]) - inst.config_algo.dias_descanso_semana
    IN /\ Exito
       /\ \E e \in 1..NumEmpleados(inst), k \in DOMAIN semanas, j \in DOMAIN semanas :
             /\ maximo(k) > 0
             /\ Cardinality(DiasTrabajados(e, semanas[k])) = maximo(k)
             /\ maximo(j) <= 0
             /\ DiasTrabajados(e, semanas[j]) = Rango(semanas[j])

\* C8: the result is 'success' exactly for the solver statuses optimal and feasible;
\* for any other status it is the value 'infeasible' with an empty schedule, equity 0
\* and the five fixed suggestions; no exception follows a solver status.
C8_EstadoResultado ==
    /\ pc = "excepcion" => status = "none"
    /\ pc = "fin" =>
          IF status \in {"OPTIMAL", "FEASIBLE"}
          THEN resultado.estado = "success"
          ELSE /\ resultado.estado = "infeasible"
               /\ resultado.horarios = <<>>
               /\ resultado.distribucion_equitativa = 0
               /\ resultado.sugerencias =
                     <<"Aumentar el numero de empleados disponibles",
                       "Reducir la cobertura minima requerida por turno",
                       "Aumentar las horas maximas permitidas (habilitar horas extra)",
                       "Revisar festivos personales que puedan estar bloqueando asignaciones",
                       "Reducir los dias de descanso obligatorios por semana">>

\* the builder has returned 'infeasible' for a model with variables and no solution
C8_Witness ==
    /\ pc = "fin"
    /\ status = "INFEASIBLE"
    /\ shifts # {}
    /\ resultado.estado = "infeasible"
    /\ Len(resultado.sugerencias) = 5

\* the assignment the solver holds, when it holds one
ConSolucion == pc \in {"resultado", "fin"} /\ sol # <<>>

\* the guard assignments and the favourite assignments of an employee, the
\* spread of a count over the roster
GuardiasDe(e) ==
    Cardinality({v \in shifts : v[2] = e /\ sol[v] = 1 /\ TurnoInfo(inst, v[4]).tipo = "guardia"})

FavoritosDe(e) ==
    Cardinality({v \in shifts : v[2] = e /\ sol[v] = 1
                                  /\ v[4] \in Rango(inst.empleados[e].turnos_favoritos)})

Dispersion(cuenta(_)) ==
    IF NumEmpleados(inst) = 0 THEN 0
    ELSE MaxDe({cuenta(e) : e \in 1..NumEmpleados(inst)})
            - MinDe({cuenta(e) : e \in 1..NumEmpleados(inst)})

HorasTotales(e) == HorasEnteras(e, DiasSet(inst))

HayPlantillaDeGuardia == \E k \in DOMAIN inst.turnos : inst.turnos[k].tipo = "guardia"

HorasDePlantilla ==
    [u \in {Uid(inst, e) : e \in 1..NumEmpleados(inst)} |->
        IF u \in DOMAIN resultado.horas_por_empleado THEN resultado.horas_por_empleado[u] ELSE 0]

\* C23: in a successful result the equity score is within [0, 1] and is
\* max(0, 1 - sigma/mu) over the hour totals of every employee of the roster, an
\* employee without assignment counting 0 hours; it is 1 only if all employees of
\* the roster have the same hour total.
C23_EquidadSobrePlantilla ==
    Exito =>
        /\ resultado.distribucion_equitativa \in 0..100
        /\ resultado.distribucion_equitativa = Equidad(HorasDePlantilla)
        /\ resultado.distribucion_equitativa = 100 =>
              \A u, w \in DOMAIN HorasDePlantilla : HorasDePlantilla[u] = HorasDePlantilla[w]

----------------------------------------------------------------------------
(* Persistence: firebase_client.py.  cfgdb is what the database holds of   *)
(* the company: whether the client is connected, the employees, and the    *)
(* pharmacy's configuration (<<>> if the company has no pharmacy).  db is  *)
(* the node calendarios/{farmacia}/{mes}; a child that was never written   *)
(* is <<>>.  Timestamps are the handler thread whose clock wrote them.     *)

Hilos == 1..NumHilos

CalendarioVacio == [metadata |-> <<>>, turnos |-> <<>>, metricas |-> <<>>]

NombresTurno == <<"turno_1", "turno_2", "turno_3", "turno_4">>

\* a turno dict as leer_configuracion hands it to the parser
TurnoDict(id, inicio, fin, horas, dias) ==
    [id |-> id, horaInicio |-> <<inicio, 0>>, horaFin |-> <<fin, 0>>, duracionHoras |-> horas,
     tipo |-> "laboral", diasSemanaValidos |-> dias]

\* Sunday left as 0
DiasIsoSinConvertir(dias_semana) == dias_semana

\* coverage weekdays (0 = Sunday) to ISO weekdays (7 = Sunday)
DiasIso(dias_semana) == {IF dia = 0 THEN 7 ELSE dia : dia \in dias_semana}

RECURSIVE GenerarTurnosDesde(_, _, _)
GenerarTurnosDesde(configs, k, turno_counter) ==
    IF k > Len(configs) THEN <<>>
    ELSE LET config == configs[k]
             hora_inicio == config.horaInicio
             hora_fin == config.horaFin
             duracion_horas == hora_fin - hora_inicio
             dias_iso == DiasIso(config.diasSemana)
             mitad == hora_inicio + (duracion_horas \div 2)
         IN IF duracion_horas <= 6
            THEN <<TurnoDict(NombresTurno[turno_counter + 1], hora_inicio, hora_fin,
                             duracion_horas, dias_iso)>>
                 \o GenerarTurnosDesde(configs, k + 1, turno_counter + 1)
            ELSE <<TurnoDict(NombresTurno[turno_counter + 1], hora_inicio, mitad,
                             mitad - hora_inicio, dias_iso),
                   TurnoDict(NombresTurno[turno_counter + 2], mitad, hora_fin,
                             hora_fin - mitad, dias_iso)>>
                 \o GenerarTurnosDesde(configs, k + 1, turno_counter + 2)

\* one template per rule, however long
GenerarTurnosSinDividir(configuraciones_cobertura) ==
    [k \in DOMAIN configuraciones_cobertura |->
        TurnoDict(NombresTurno[k], configuraciones_cobertura[k].horaInicio,
                  configuraciones_cobertura[k].horaFin,
                  configuraciones_cobertura[k].horaFin - configuraciones_cobertura[k].horaInicio,
                  DiasIso(configuraciones_cobertura[k].diasSemana))]

\* _generar_turnos_desde_cobertura
GenerarTurnosDesdeCobertura(configuraciones_cobertura) ==
    GenerarTurnosDesde(configuraciones_cobertura, 1, 0)

\* leer_empleados
LeerEmpleados(c) == c.usuarios

\* leer_configuracion: <<>> is the empty dict returned when no pharmacy is found
LeerConfiguracion(c) ==
    IF c.farmacia = <<>> THEN <<>>
    ELSE <<[turnos |-> GenerarTurnosDesdeCobertura(c.farmacia[1].configuracionesCobertura),
            coberturaMinima |->
                [trabajadoresMinimos |-> c.farmacia[1].trabajadoresMinimos,
                 configuracionesCobertura |-> c.farmacia[1].configuracionesCobertura]]>>

\* the (employee, date) pairs of a schedule, one push key each
ParesHorarios(horarios) == UNION {{<<u, d>> : d \in DOMAIN horarios[u]} : u \in DOMAIN horarios}

\* guardar_horarios, the push() of every key: the client library writes '' under it
GuardarPush(cal, h, horarios) ==
    [cal EXCEPT !.turnos =
        [k \in DOMAIN cal.turnos \cup {<<h, par>> : par \in ParesHorarios(horarios)} |->
            IF k \in DOMAIN cal.turnos THEN cal.turnos[k] ELSE ""]]

\* guardar_horarios, calendario_ref.set: the whole node is replaced
GuardarSet(h, horarios, metricas) ==
    [metadata |-> [empresaId |-> "empresa", farmaciaId |-> "farmacia",
                   createdAt |-> h, updatedAt |-> h],
     turnos |-> [k \in {<<h, par>> : par \in ParesHorarios(horarios)} |->
                    [empleadoId |-> k[2][1], fecha |-> k[2][2],
                     turnoId |-> horarios[k[2][1]][k[2][2]], estado |-> "confirmado"]],
     metricas |-> <<metricas>>]

\* actualizar_estado_horario: metadata.update of estado and updatedAt
ActualizarEstadoHorario(cal, h, estado) ==
    [cal EXCEPT !.metadata =
        [k \in DOMAIN cal.metadata \cup {"estado", "updatedAt"} |->
            IF k = "estado" THEN estado
            ELSE IF k = "updatedAt" THEN h ELSE cal.metadata[k]]]

----------------------------------------------------------------------------
(* Service: main.py *)

DiasDescansoSemanaDefecto == 1

\* _parsear_configuracion_turnos: weekday masks and fixed dates are not read, and the
\* ConfiguracionTurnos built has no attribute configuraciones_cobertura
ParsearConfiguracionTurnos(config_data) ==
    LET turnos_data == IF config_data = <<>> THEN <<>> ELSE config_data[1].turnos
        cobertura_data == IF config_data = <<>> THEN <<>> ELSE config_data[1].coberturaMinima
    IN [turnos |-> [k \in DOMAIN turnos_data |->
                       Turno(turnos_data[k].id, turnos_data[k].horaInicio, turnos_data[k].horaFin,
                             turnos_data[k].duracionHoras * 60, turnos_data[k].tipo, {}, <<>>)],
        config_turnos |-> [tiene_configuraciones |-> FALSE, configuraciones_cobertura |-> <<>>,
                           cobertura_minima |-> cobertura_data]]

\* _parsear_configuracion_algoritmo
ParsearConfiguracionAlgoritmo(config_data) ==
    [dias_descanso_semana |-> DiasDescansoSemanaDefecto, pesos |-> <<>>]

\* the SchedulerORTools a handler creates
CrearGenerador(c, solicitud) ==
    [mes |-> solicitud.mes,
     empleados |-> LeerEmpleados(c),
     turnos |-> ParsearConfiguracionTurnos(LeerConfiguracion(c)).turnos,
     config_turnos |-> ParsearConfiguracionTurnos(LeerConfiguracion(c)).config_turnos,
     config_algo |-> ParsearConfiguracionAlgoritmo(LeerConfiguracion(c))]

\* the metricas dict handed to guardar_horarios
MetricasDe(r) ==
    [horasPorEmpleado |-> r.horas_por_empleado,
     guardiasPorEmpleado |-> r.guardias_por_empleado,
     festivosPorEmpleado |-> r.festivos_por_empleado,
     distribucionEquitativa |-> r.distribucion_equitativa,
     restriccionesVioladas |-> r.restricciones_violadas,
     estadoSolver |-> r.estado_solver]

\* saving whatever the result
DebeGuardarSiempre(r) == TRUE

\* if resultado.estado == 'success'
DebeGuardar(r) == r.estado = "success"

Solicitud(tipo, cuerpo, mes_valido, aj) ==
    [tipo |-> tipo, cuerpo |-> cuerpo, mes |-> 5, mes_valido |-> mes_valido, ajustes |-> aj]

\* the requests: generate and adjust, with an empty body, without mes, with a
\* malformed mes, and well formed
Solicitudes ==
    {Solicitud("generar", "ok", TRUE, <<>>),
     Solicitud("generar", "vacio", TRUE, <<>>),
     Solicitud("generar", "ok", FALSE, <<>>),
     Solicitud("ajustar", "ok", TRUE, [u \in {"e1"} |-> [d \in {1} |-> "turno_1"]]),
     Solicitud("ajustar", "sin_mes", TRUE, <<>>),
     Solicitud("ajustar", "ok", FALSE, <<>>)}

BasesDeDatos ==
    [conectado : BOOLEAN,
     usuarios : {<<>>, <<Empleado("e1", 600, 2400, 9600, {}, <<>>)>>},
     farmacia : {<<>>,
                 <<[configuracionesCobertura |-> <<>>, trabajadoresMinimos |-> 1]>>,
                 <<[configuracionesCobertura |->
                       <<[diasSemana |-> 1..5, horaInicio |-> 9, horaFin |-> 17,
                          trabajadoresMinimos |-> 1]>>,
                    trabajadoresMinimos |-> 1]>>}]

BuilderParado ==
    /\ inst = <<>>
    /\ ajustes = <<>>
    /\ pc = "none"
    /\ shifts = {}
    /\ dvars = {}
    /\ model = {}
    /\ objetivo = ObjetivoVacio
    /\ status = "none"
    /\ sol = <<>>
    /\ resultado = SinResultado

InitServicio ==
    /\ BuilderParado
    /\ BibliotecaParada
    /\ cfgdb \in BasesDeDatos
    /\ db = CalendarioVacio
    /\ req = [h \in Hilos |-> SinSolicitud]
    /\ hpc = [h \in Hilos |-> "idle"]
    /\ res = [h \in Hilos |-> SinResultado]
    /\ codigo = [h \in Hilos |-> 0]
    /\ escritor = "none"

\* the handler returns the HTTP status c
Devolver(h, c) ==
    /\ codigo' = [codigo EXCEPT ![h] = c]
    /\ hpc' = [hpc EXCEPT ![h] = "done"]

Recibir(h) ==
    /\ hpc[h] = "idle"
    /\ \E s \in Solicitudes : req' = [req EXCEPT ![h] = s]
    /\ hpc' = [hpc EXCEPT ![h] = "validar"]
    /\ res' = [res EXCEPT ![h] = SinResultado]
    /\ codigo' = [codigo EXCEPT ![h] = 0]
    /\ UNCHANGED <<db, cfgdb>>
    /\ UNCHANGED <<builderVars, libVars, escritor>>

\* the checks of the body and of the client
Validar(h) ==
    /\ hpc[h] = "validar"
    /\ IF req[h].cuerpo # "ok" THEN Devolver(h, 400)
       ELSE IF ~cfgdb.conectado THEN Devolver(h, 503)
       ELSE hpc' = [hpc EXCEPT ![h] = "leer"] /\ codigo' = codigo
    /\ UNCHANGED <<db, cfgdb, req, res>>
    /\ UNCHANGED <<builderVars, libVars, escritor>>

\* the reads; only generar_horarios returns 404 on missing employees or configuration
Leer(h) ==
    /\ hpc[h] = "leer"
    /\ IF req[h].tipo = "generar" /\ (LeerEmpleados(cfgdb) = <<>> \/ LeerConfiguracion(cfgdb) = <<>>)
       THEN Devolver(h, 404)
       ELSE hpc' = [hpc EXCEPT ![h] = "construir"] /\ codigo' = codigo
    /\ UNCHANGED <<db, cfgdb, req, res>>
    /\ UNCHANGED <<builderVars, libVars, escritor>>

\* SchedulerORTools(...) and generar_horarios(...); an exception ends the request with 500
Construir(h) ==
    /\ hpc[h] = "construir"
    /\ \E r \in (IF req[h].mes_valido
                 THEN GenerarHorarios(CrearGenerador(cfgdb, req[h]), req[h].ajustes)
                 ELSE {Excepcion}) :
          IF r = Excepcion
          THEN Devolver(h, 500) /\ res' = res
          ELSE /\ res' = [res EXCEPT ![h] = r]
               /\ hpc' = [hpc EXCEPT ![h] = IF DebeGuardar(r) THEN "guardar" ELSE "responder"]
               /\ codigo' = codigo
    /\ UNCHANGED <<db, cfgdb, req>>
    /\ UNCHANGED <<builderVars, libVars, escritor>>

\* guardar_horarios up to the push keys; it raises if the company has no pharmacy
Guardar(h) ==
    /\ hpc[h] = "guardar"
    /\ IF cfgdb.farmacia = <<>>
       THEN Devolver(h, 500) /\ db' = db
       ELSE /\ db' = GuardarPush(db, h, res[h].horarios)
            /\ hpc' = [hpc EXCEPT ![h] = "set"]
            /\ codigo' = codigo
    /\ UNCHANGED <<cfgdb, req, res>>
    /\ UNCHANGED <<builderVars, libVars, escritor>>

GuardarCalendario(h) ==
    /\ hpc[h] = "set"
    /\ db' = GuardarSet(h, res[h].horarios, MetricasDe(res[h]))
    /\ hpc' = [hpc EXCEPT ![h] = IF req[h].tipo = "ajustar" THEN "estado" ELSE "responder"]
    /\ UNCHANGED <<cfgdb, req, res, codigo>>
    /\ escritor' = req[h].tipo
    /\ UNCHANGED <<builderVars, libVars>>

\* ajustar_horarios marks the calendar as modified
MarcarModificado(h) ==
    /\ hpc[h] = "estado"
    /\ db' = ActualizarEstadoHorario(db, h, "modificado")
    /\ hpc' = [hpc EXCEPT ![h] = "responder"]
    /\ UNCHANGED <<cfgdb, req, res, codigo>>
    /\ UNCHANGED <<builderVars, libVars, escritor>>

Responder(h) ==
    /\ hpc[h] = "responder"
    /\ Devolver(h, IF res[h].estado = "success" THEN 200 ELSE 422)
    /\ UNCHANGED <<db, cfgdb, req, res>>
    /\ UNCHANGED <<builderVars, libVars, escritor>>

\* the thread is free for the next request
Liberar(h) ==
    /\ hpc[h] = "done"
    /\ hpc' = [hpc EXCEPT ![h] = "idle"]
    /\ UNCHANGED <<db, cfgdb, req, res, codigo>>
    /\ UNCHANGED <<builderVars, libVars, escritor>>

NextServicio ==
    \/ \E h \in Hilos : Recibir(h)
    \/ \E h \in Hilos : Validar(h)
    \/ \E h \in Hilos : Leer(h)
    \/ \E h \in Hilos : Construir(h)
    \/ \E h \in Hilos : Guardar(h)
    \/ \E h \in Hilos : GuardarCalendario(h)
    \/ \E h \in Hilos : MarcarModificado(h)
    \/ \E h \in Hilos : Responder(h)
    \/ \E h \in Hilos : Liberar(h)

SpecServicio == InitServicio /\ [][NextServicio]_vars

----------------------------------------------------------------------------
(* Properties of the service *)

\* the value of metadata/estado in the persisted calendar
EstadoPersistido(cal) == Get(cal.metadata, "estado", "absent")

\* C9: every step that changes the persisted calendar is a write step of a handler
\* whose builder result is 'success'; a step in which a handler returns 400, 404,
\* 422, 500 or 503 leaves the calendar as it was.
C9_SinEscrituraSinExito ==
    [][/\ db' # db =>
             \E h \in Hilos : /\ hpc[h] \in {"guardar", "set", "estado"}
                              /\ hpc'[h] # hpc[h]
                              /\ res[h].estado = "success"
       /\ \A h \in Hilos :
             (codigo'[h] # codigo[h] /\ codigo'[h] \in {400, 404, 422, 500, 503}) => db' = db
       /\ \A h \in Hilos :
             hpc'[h] \in {"guardar", "set", "estado"} => res'[h].estado = "success"]_vars

\* a calendar was saved, and later requests ended with 422 on an infeasible result
\* and with 500 on an exception while the calendar stayed as saved
C9_Witness ==
    /\ db # CalendarioVacio
    /\ \E h \in Hilos, g \in Hilos :
          /\ hpc[h] = "done" /\ codigo[h] = 422 /\ res[h].estado = "infeasible"
          /\ hpc[g] = "done" /\ codigo[g] = 500

\* the place of a state value in absent -> generated -> modified
RangoEstado(e) == IF e = "absent" THEN 0 ELSE IF e \in {"generado", "generated"} THEN 1 ELSE 2

\* C10: the persisted state field never moves back towards absent, a successful
\* generate leaves it "generated", a successful adjust leaves it "modified".
C10_TransicionesEstado ==
    [][/\ RangoEstado(EstadoPersistido(db')) >= RangoEstado(EstadoPersistido(db))
       /\ \A h \in Hilos :
             (hpc[h] = "responder" /\ hpc'[h] = "done" /\ codigo'[h] = 200) =>
                IF req[h].tipo = "generar"
                THEN RangoEstado(EstadoPersistido(db')) >= 1
                ELSE RangoEstado(EstadoPersistido(db')) = 2]_vars

\* C28: whenever the persisted state is "modificado" the persisted calendar is one
\* written by an adjust request, and when an adjust has made its two writes the
\* persisted calendar carries "modificado" and is the one it wrote, or one that
\* another adjust wrote over it.
C28_ModificadoEsDeAjuste ==
    [][/\ EstadoPersistido(db') = "modificado" => escritor' = "ajustar"
       /\ \A h \in Hilos :
             (hpc[h] = "estado" /\ hpc'[h] = "responder") =>
                /\ EstadoPersistido(db') = "modificado"
                /\ db'.metadata.createdAt # h => escritor' = "ajustar"]_vars

----------------------------------------------------------------------------
(* A schedule saved and read back: firebase_client.py guardar_horarios and  *)
(* leer_horarios_existentes called one after the other by one client.      *)

\* guardar_horarios as a whole: the push keys, then the set of the calendar node
GuardarHorarios(cal, h, horarios, metricas) ==
    LET empujado == GuardarPush(cal, h, horarios)
        nuevo == GuardarSet(h, horarios, metricas)
    IN [empujado EXCEPT !.metadata = nuevo.metadata, !.turnos = nuevo.turnos,
                        !.metricas = nuevo.metricas]

\* the entries of turnos of one employee on one date
EntradasDe(turnos, u, d) ==
    {k \in DOMAIN turnos : turnos[k].empleadoId = u /\ turnos[k].fecha = d}

\* reading the field estado where turnoId is meant
LeerHorariosExistentesEstado(cal) ==
    IF cal.turnos = <<>> THEN <<>>
    ELSE <<[u \in {cal.turnos[k].empleadoId : k \in DOMAIN cal.turnos} |->
              [d \in {cal.turnos[k].fecha : k \in {j \in DOMAIN cal.turnos :
                                                      cal.turnos[j].empleadoId = u}} |->
                  cal.turnos[CHOOSE k \in EntradasDe(cal.turnos, u, d) : TRUE].estado]]>>

\* leer_horarios_existentes: <<>> is None, <<m>> the mapping rebuilt from turnos
LeerHorariosExistentes(cal) ==
    IF cal.turnos = <<>> THEN <<>>
    ELSE <<[u \in {cal.turnos[k].empleadoId : k \in DOMAIN cal.turnos} |->
              [d \in {cal.turnos[k].fecha : k \in {j \in DOMAIN cal.turnos :
                                                      cal.turnos[j].empleadoId = u}} |->
                  cal.turnos[CHOOSE k \in EntradasDe(cal.turnos, u, d) : TRUE].turnoId]]>>

\* date -> shiftId over some of the dates
PorDia == UNION {[D -> {"M", "A"}] : D \in SUBSET (1..2)}

\* employeeId -> (date -> shiftId) over some of the employees
HorariosPosibles == UNION {[E -> PorDia] : E \in SUBSET {"e1", "e2"}}

MetricasVacias == [estadoSolver |-> "OPTIMAL"]

InitPersistencia ==
    /\ BuilderParado
    /\ cfgdb = <<>>
    /\ req = <<>>
    /\ hpc = <<>>
    /\ res = <<>>
    /\ codigo = <<>>
    /\ escritor = "none"
    /\ db = CalendarioVacio
    /\ entrada \in HorariosPosibles
    /\ salida = <<>>
    /\ fase = "guardar"

AplicarGuardarHorarios ==
    /\ fase = "guardar"
    /\ db' = GuardarHorarios(db, 1, entrada, MetricasVacias)
    /\ fase' = "leer"
    /\ UNCHANGED <<builderVars, cfgdb, req, hpc, res, codigo, escritor, entrada, salida>>

AplicarLeerHorariosExistentes ==
    /\ fase = "leer"
    /\ salida' = LeerHorariosExistentes(db)
    /\ fase' = "leido"
    /\ UNCHANGED <<builderVars, serviceVars, entrada>>

\* the client goes on to save another schedule over the calendar
OtroHorario ==
    /\ fase = "leido"
    /\ entrada' \in HorariosPosibles
    /\ salida' = <<>>
    /\ fase' = "guardar"
    /\ UNCHANGED <<builderVars, serviceVars>>

NextPersistencia ==
    \/ AplicarGuardarHorarios
    \/ AplicarLeerHorariosExistentes
    \/ OtroHorario

SpecPersistencia == InitPersistencia /\ [][NextPersistencia]_vars

\* the (employee, date, shift) triples of a schedule
Triples(horarios) ==
    UNION {{<<u, d, horarios[u][d]>> : d \in DOMAIN horarios[u]} : u \in DOMAIN horarios}

----------------------------------------------------------------------------
(* Library functions called on their own: entrada holds the function's     *)
(* name and arguments, salida what it returns.                             *)

\* the templates es_valido_para_dia is called on: with a weekday mask, with a
\* fixed date, with both and with neither
TurnosValidez ==
    {Turno("T", <<9, 0>>, <<13, 0>>, 240, "laboral", dias, fecha) :
        dias \in {{}, 1..5, {6, 7}, {7}, {1, 3}}, fecha \in {<<>>, <<2>>, <<7>>}}

\* the times of day se_solapa_con is called on
Horas13 == {<<h, m>> : h \in 9..11, m \in {0, 30}}

\* templates over those times that end after they start, and two that do not
TurnosSolape ==
    {Turno("T", p[1], p[2], HoraAMinutos(p[2]) - HoraAMinutos(p[1]), "laboral", {}, <<>>) :
        p \in {q \in Horas13 \X Horas13 : HoraAMinutos(q[2]) > HoraAMinutos(q[1])}}
    \cup {Turno("T", <<10, 0>>, <<10, 0>>, 0, "laboral", {}, <<>>),
          Turno("T", <<11, 0>>, <<9, 30>>, 0, "laboral", {}, <<>>)}

LlamadasValidez ==
    [fn : {"es_valido_para_dia"}, turno : TurnosValidez, mes : 0..6, fecha : 1..8]

LlamadasSolape ==
    [fn : {"se_solapa_con"}, turno : TurnosSolape, otro_turno : TurnosSolape]

LlamarEsValidoParaDia ==
    /\ fase = "llamar"
    /\ entrada.fn = "es_valido_para_dia"
    /\ salida' = EsValidoParaDia(entrada.mes, entrada.turno, entrada.fecha)
    /\ fase' = "hecho"
    /\ UNCHANGED <<builderVars, serviceVars, entrada>>

LlamarSeSolapaCon ==
    /\ fase = "llamar"
    /\ entrada.fn = "se_solapa_con"
    /\ salida' = SeSolapaCon(entrada.turno, entrada.otro_turno)
    /\ fase' = "hecho"
    /\ UNCHANGED <<builderVars, serviceVars, entrada>>

\* es_valido_para_dia has returned
HechoValidez == fase = "hecho" /\ entrada.fn = "es_valido_para_dia"

\* C12 as claimed: validFor is true exactly when the template has a fixed date equal
\* to the date, or has no fixed date and a weekday mask containing the date's ISO
\* weekday; a template with a fixed date is valid on no other date.
C12_ValidoSiYSoloSi ==
    HechoValidez =>
        /\ salida <=>
              \/ /\ entrada.turno.fecha_especifica # <<>>
                 /\ entrada.turno.fecha_especifica[1] = entrada.fecha
              \/ /\ entrada.turno.fecha_especifica = <<>>
                 /\ IsoWeekday(entrada.mes, entrada.fecha) \in entrada.turno.dias_semana_validos
        /\ (entrada.turno.fecha_especifica # <<>>
              /\ entrada.turno.fecha_especifica[1] # entrada.fecha) => ~salida

\* C12 as the code has it: the same, and a template with neither a fixed date nor a
\* weekday mask is valid on every date.
C12_ValidoOSinRestriccion ==
    HechoValidez =>
        /\ salida <=>
              \/ /\ entrada.turno.fecha_especifica # <<>>
                 /\ entrada.turno.fecha_especifica[1] = entrada.fecha
              \/ /\ entrada.turno.fecha_especifica = <<>>
                 /\ IsoWeekday(entrada.mes, entrada.fecha) \in entrada.turno.dias_semana_validos
              \/ /\ entrada.turno.fecha_especifica = <<>>
                 /\ entrada.turno.dias_semana_validos = {}
        /\ (entrada.turno.fecha_especifica # <<>>
              /\ entrada.turno.fecha_especifica[1] # entrada.fecha) => ~salida

\* a template whose mask holds Sunday only was found valid on a Sunday
C12_Witness ==
    /\ HechoValidez
    /\ entrada.turno.fecha_especifica = <<>>
    /\ entrada.turno.dias_semana_validos = {7}
    /\ IsoWeekday(entrada.mes, entrada.fecha) = 7
    /\ salida

\* se_solapa_con has returned for two templates that end after they start
HechoSolape ==
    /\ fase = "hecho"
    /\ entrada.fn = "se_solapa_con"
    /\ HoraAMinutos(entrada.turno.hora_fin) > HoraAMinutos(entrada.turno.hora_inicio)
    /\ HoraAMinutos(entrada.otro_turno.hora_fin) > HoraAMinutos(entrada.otro_turno.hora_inicio)

\* some minute of the day lies in both half-open intervals
Intersecan(a, b) ==
    \E t \in 0..1439 :
        /\ HoraAMinutos(a.hora_inicio) <= t /\ t < HoraAMinutos(a.hora_fin)
        /\ HoraAMinutos(b.hora_inicio) <= t /\ t < HoraAMinutos(b.hora_fin)

\* C13: for templates with end > start, overlaps is true exactly when the half-open
\* minute intervals intersect, it is symmetric, and templates that abut do not overlap.
C13_SolapeSemiabierto ==
    HechoSolape =>
        /\ salida <=> Intersecan(entrada.turno, entrada.otro_turno)
        /\ salida <=> SeSolapaCon(entrada.otro_turno, entrada.turno)
        /\ entrada.turno.hora_fin = entrada.otro_turno.hora_inicio => ~salida

\* two templates that abut have been compared and do not overlap
C13_Witness ==
    /\ HechoSolape
    /\ entrada.turno.hora_fin = entrada.otro_turno.hora_inicio
    /\ ~salida

\* a template has been compared with itself
HechoConsigoMismo ==
    fase = "hecho" /\ entrada.fn = "se_solapa_con" /\ entrada.turno = entrada.otro_turno

\* C14 as claimed: no template overlaps itself.
C14_Antirreflexiva == HechoConsigoMismo => ~salida

\* C14 as the code has it: a template overlaps itself exactly when it ends after it
\* starts.
C14_ReflexivaSiNoVacia ==
    HechoConsigoMismo =>
        (salida <=> HoraAMinutos(entrada.turno.hora_fin) > HoraAMinutos(entrada.turno.hora_inicio))

\* a template that ends after it starts has been compared with itself and overlaps
C14_Witness ==
    /\ HechoConsigoMismo
    /\ HoraAMinutos(entrada.turno.hora_fin) > HoraAMinutos(entrada.turno.hora_inicio)
    /\ salida

\* what a call gives back: a value, or the exception it raises
Devuelve(v) == [excepcion |-> "", valor |-> v]
Lanza(e) == [excepcion |-> e, valor |-> 0]

\* _obtener_trabajadores_necesarios of a builder: reading the attribute
\* configuraciones_cobertura of a ConfiguracionTurnos that lacks it raises
LlamadaObtenerTrabajadoresNecesarios(i, fecha, turno) ==
    IF ~i.config_turnos.tiene_configuraciones
    THEN Lanza("AttributeError")
    ELSE Devuelve(ObtenerTrabajadoresNecesarios(i, fecha, turno))

\* the per-slot rules and the global floor stored in the database, in the
\* builder's field names
ReglasDe(c) ==
    [k \in DOMAIN c.farmacia[1].configuracionesCobertura |->
        Regla(c.farmacia[1].configuracionesCobertura[k].diasSemana,
              c.farmacia[1].configuracionesCobertura[k].horaInicio,
              c.farmacia[1].configuracionesCobertura[k].horaFin,
              c.farmacia[1].configuracionesCobertura[k].trabajadoresMinimos)]

\* builders made by the service from a database that has coverage rules, and
\* builders made directly from a ConfiguracionTurnos that has the attribute
LlamadasRequeridos ==
    UNION {[fn : {"obtener_trabajadores_necesarios"},
            i : {CrearGenerador(c, Solicitud("generar", "ok", TRUE, <<>>))},
            reglas : {ReglasDe(c)},
            global : {c.farmacia[1].trabajadoresMinimos},
            fecha : 1..NumDias,
            turno : 1..Len(GenerarTurnosDesdeCobertura(c.farmacia[1].configuracionesCobertura))] :
             c \in {b \in BasesDeDatos : b.farmacia # <<>> /\ b.conectado /\ b.usuarios # <<>>}}
    \cup UNION {[fn : {"obtener_trabajadores_necesarios"},
                 i : {j},
                 reglas : {j.config_turnos.configuraciones_cobertura},
                 global : {Get(j.config_turnos.cobertura_minima, "trabajadoresMinimos",
                               TrabajadoresMinimosDefecto)},
                 fecha : 1..NumDias,
                 turno : 1..Len(j.turnos)] :
                  j \in {k \in Instancias : /\ k.config_turnos.tiene_configuraciones
                                            /\ Len(k.empleados) = 1
                                            /\ k.config_algo.dias_descanso_semana = 1}}

LlamarObtenerTrabajadoresNecesarios ==
    /\ fase = "llamar"
    /\ entrada.fn = "obtener_trabajadores_necesarios"
    /\ salida' = LlamadaObtenerTrabajadoresNecesarios(entrada.i, entrada.fecha,
                                                      entrada.i.turnos[entrada.turno])
    /\ fase' = "hecho"
    /\ UNCHANGED <<builderVars, serviceVars, entrada>>

\* the rules of the call that match its date and shift
ReglasQueAplican ==
    {k \in DOMAIN entrada.reglas :
        /\ (IF IsoWeekday(entrada.i.mes, entrada.fecha) = 7 THEN 0
            ELSE IsoWeekday(entrada.i.mes, entrada.fecha)) \in entrada.reglas[k].dias_semana
        /\ entrada.reglas[k].hora_inicio <= entrada.i.turnos[entrada.turno].hora_inicio[1]
        /\ entrada.i.turnos[entrada.turno].hora_inicio[1] < entrada.reglas[k].hora_fin}

\* C15: required(date, shift) is the headcount of the first rule that matches, the
\* global floor if none does, also for a builder made by the service's parser.
C15_RequeridoPrimeraRegla ==
    (fase = "hecho" /\ entrada.fn = "obtener_trabajadores_necesarios") =>
        /\ salida.excepcion = ""
        /\ salida.valor =
              IF ReglasQueAplican = {} THEN entrada.global
              ELSE entrada.reglas[CHOOSE k \in ReglasQueAplican :
                                     \A j \in ReglasQueAplican : k <= j].trabajadores_minimos

\* a Turno carrying the weekday mask of a synthesized turno dict
TurnoConMascara(turno_dict) ==
    Turno(turno_dict.id, turno_dict.horaInicio, turno_dict.horaFin,
          turno_dict.duracionHoras * 60, turno_dict.tipo, turno_dict.diasSemanaValidos, <<>>)

\* coverage rules over several weekday sets, of four and of eight hours
ReglasSemana ==
    [diasSemana : {{}, {0}, {6}, {0, 6}, 1..5, {3}, 0..6}, horaInicio : {9},
     horaFin : {13, 17}, trabajadoresMinimos : {1}]

LlamadasDiaSemana == [fn : {"dia_semana"}, mes : 0..6, fecha : 1..8, regla : ReglasSemana]

\* the weekday of a date as the coverage resolver and as es_valido_para_dia compute
\* it, whether the rule's weekday set holds the one, whether the mask synthesized
\* from the rule holds the other, and whether a template with that mask is valid
LlamarDiaSemana ==
    /\ fase = "llamar"
    /\ entrada.fn = "dia_semana"
    /\ salida' =
          [cobertura |-> DiaSemanaCobertura(entrada.mes, entrada.fecha),
           iso |-> IsoWeekday(entrada.mes, entrada.fecha),
           aplica |-> DiaSemanaCobertura(entrada.mes, entrada.fecha) \in entrada.regla.diasSemana,
           en_mascara |-> IsoWeekday(entrada.mes, entrada.fecha)
                             \in GenerarTurnosDesdeCobertura(<<entrada.regla>>)[1].diasSemanaValidos,
           valido |-> [k \in DOMAIN GenerarTurnosDesdeCobertura(<<entrada.regla>>) |->
                          EsValidoParaDia(entrada.mes,
                              TurnoConMascara(GenerarTurnosDesdeCobertura(<<entrada.regla>>)[k]),
                              entrada.fecha)]]
    /\ fase' = "hecho"
    /\ UNCHANGED <<builderVars, serviceVars, entrada>>

EsBisiesto(year) == year % 4 = 0 /\ (year % 100 # 0 \/ year % 400 = 0)

DiasEnMes(year, month) ==
    IF month = 2 THEN (IF EsBisiesto(year) THEN 29 ELSE 28)
    ELSE IF month \in {4, 6, 9, 11} THEN 30 ELSE 31

\* datetime(year, month, day) raises ValueError outside the calendar
FechaValida(f) == f[2] \in 1..12 /\ f[3] \in 1..DiasEnMes(f[1], f[2])

\* date + timedelta(days=1) and date - timedelta(days=1)
MasUnDia(f) ==
    IF f[3] < DiasEnMes(f[1], f[2]) THEN <<f[1], f[2], f[3] + 1>>
    ELSE IF f[2] < 12 THEN <<f[1], f[2] + 1, 1>>
    ELSE <<f[1] + 1, 1, 1>>

MenosUnDia(f) ==
    IF f[3] > 1 THEN <<f[1], f[2], f[3] - 1>>
    ELSE IF f[2] > 1 THEN <<f[1], f[2] - 1, DiasEnMes(f[1], f[2] - 1)>>
    ELSE <<f[1] - 1, 12, 31>>

\* a <= b on datetimes
FechaMenorIgual(a, b) ==
    \/ a[1] < b[1]
    \/ a[1] = b[1] /\ a[2] < b[2]
    \/ a[1] = b[1] /\ a[2] = b[2] /\ a[3] <= b[3]

Digito(n) == <<"0", "1", "2", "3", "4", "5", "6", "7", "8", "9">>[n + 1]

\* strftime('%Y-%m-%d'): a string of ten characters
Strftime(f) ==
    <<Digito(f[1] \div 1000), Digito((f[1] \div 100) % 10), Digito((f[1] \div 10) % 10),
      Digito(f[1] % 10), "-", Digito(f[2] \div 10), Digito(f[2] % 10), "-",
      Digito(f[3] \div 10), Digito(f[3] % 10)>>

\* the loop stopping before the last day
RECURSIVE DiasHastaSinUltimo(_, _, _)
DiasHastaSinUltimo(current_date, end_date, dias) ==
    IF FechaMenorIgual(current_date, end_date) /\ current_date # end_date
    THEN DiasHastaSinUltimo(MasUnDia(current_date), end_date,
                            Append(dias, Strftime(current_date)))
    ELSE dias

\* while current_date <= end_date: append, advance
RECURSIVE DiasHasta(_, _, _)
DiasHasta(current_date, end_date, dias) ==
    IF FechaMenorIgual(current_date, end_date)
    THEN DiasHasta(MasUnDia(current_date), end_date, Append(dias, Strftime(current_date)))
    ELSE dias

\* _calcular_dias_mes on the calendar: the month given as year and month number
CalcularDiasMesCalendario(year, month) ==
    IF ~FechaValida(<<year, month, 1>>) THEN Lanza("ValueError")
    ELSE Devuelve(DiasHasta(<<year, month, 1>>,
                            IF month = 12 THEN MenosUnDia(<<year + 1, 1, 1>>)
                            ELSE MenosUnDia(<<year, month + 1, 1>>),
                            <<>>))

\* leap and common years, century years among them; months 0 and 13 do not exist
AniosCalendario == {1900, 2000, 2023, 2024}

LlamadasDiasMes == [fn : {"calcular_dias_mes"}, year : AniosCalendario, month : 0..13]

LlamarCalcularDiasMes ==
    /\ fase = "llamar"
    /\ entrada.fn = "calcular_dias_mes"
    /\ salida' = CalcularDiasMesCalendario(entrada.year, entrada.month)
    /\ fase' = "hecho"
    /\ UNCHANGED <<builderVars, serviceVars, entrada>>

\* the number of days of a month, written out
LargoDeMes(year, month) ==
    CASE month \in {1, 3, 5, 7, 8, 10, 12} -> 31
      [] month \in {4, 6, 9, 11} -> 30
      [] month = 2 /\ year \in {2000, 2024} -> 29
      [] month = 2 /\ year \in {1900, 2023} -> 28

\* C17: for a month 1..12 the day list holds every date of the month exactly
\* once, ascending: its i-th entry is the i-th day of the month, first to last,
\* December and leap and common February included.
C17_DiasDelMes ==
    (fase = "hecho" /\ entrada.fn = "calcular_dias_mes" /\ entrada.month \in 1..12) =>
        /\ salida.excepcion = ""
        /\ Len(salida.valor) = LargoDeMes(entrada.year, entrada.month)
        /\ \A i \in 1..Len(salida.valor) :
              salida.valor[i] = Strftime(<<entrada.year, entrada.month, i>>)

\* February 1900, not a leap year: twenty-eight days, the last one 1900-02-28
C17_Witness ==
    /\ fase = "hecho" /\ entrada.fn = "calcular_dias_mes"
    /\ entrada.year = 1900 /\ entrada.month = 2
    /\ Len(salida.valor) = 28
    /\ salida.valor[28] = <<"1", "9", "0", "0", "-", "0", "2", "-", "2", "8">>

\* whole months: 28 to 31 days, starting on any weekday
LlamadasSemanas == [fn : {"agrupar_por_semanas"}, mes : 0..6, largo : 28..31]

LlamarAgruparPorSemanas ==
    /\ fase = "llamar"
    /\ entrada.fn = "agrupar_por_semanas"
    /\ salida' = AgruparPorSemanas(entrada.mes, [i \in 1..entrada.largo |-> i])
    /\ fase' = "hecho"
    /\ UNCHANGED <<builderVars, serviceVars, entrada>>

RECURSIVE Aplanar(_)
Aplanar(semanas) ==
    IF semanas = <<>> THEN <<>> ELSE Head(semanas) \o Aplanar(Tail(semanas))

\* C18: the week groups, in order, make up the month's dates without gap or
\* repetition; no group is empty; a date is the last of its group exactly when
\* it is a Sunday or the month's last date; no group has more than seven dates
\* and only the first and the last group may have fewer.
C18_SemanasParticion ==
    (fase = "hecho" /\ entrada.fn = "agrupar_por_semanas") =>
        /\ Aplanar(salida) = [i \in 1..entrada.largo |-> i]
        /\ \A k \in DOMAIN salida :
              /\ Len(salida[k]) \in 1..7
              /\ \A j \in DOMAIN salida[k] :
                    (j = Len(salida[k])) <=>
                        (Weekday(entrada.mes, salida[k][j]) = 6 \/ salida[k][j] = entrada.largo)
              /\ k \notin {1, Len(salida)} => Len(salida[k]) = 7

\* a month of 31 days starting on a Wednesday: five groups, the first and the
\* last of five dates, the last one ending on a Friday
C18_Witness ==
    /\ fase = "hecho" /\ entrada.fn = "agrupar_por_semanas"
    /\ entrada.mes = 2 /\ entrada.largo = 31
    /\ Len(salida) = 5
    /\ Len(salida[1]) = 5 /\ Len(salida[3]) = 7 /\ Len(salida[5]) = 5
    /\ Weekday(entrada.mes, salida[5][5]) = 4

\* SchedulerORTools(empleados, config_turnos, config_algo, mes).generar_horarios(
\* ajustes_fijos): __init__ computes the days of the month and raises for a month
\* that does not exist; nothing else looks at the inputs before the model is built
LlamadaGenerarHorarios(year, month, i, aj) ==
    IF CalcularDiasMesCalendario(year, month).excepcion # ""
    THEN {CalcularDiasMesCalendario(year, month)}
    ELSE {IF r = Excepcion THEN Lanza("AttributeError") ELSE Devuelve(r) :
            r \in GenerarHorarios(i, aj)}

\* the empty roster, and rosters of two employees: caps of 8 h a day, and a daily
\* cap of -1 h for one
InstanciasEntrada ==
    [mes : {0},
     empleados : {<<>>,
                  <<Empleado("e1", 480, 2400, 9600, {}, <<>>),
                    Empleado("e2", 480, 2400, 9600, {}, <<>>)>>,
                  <<Empleado("e1", -60, 2400, 9600, {}, <<>>),
                    Empleado("e2", 480, 2400, 9600, {}, <<>>)>>},
     turnos : {<<>>, <<TurnoM>>},
     config_turnos : {[tiene_configuraciones |-> TRUE, configuraciones_cobertura |-> <<>>,
                       cobertura_minima |-> [trabajadoresMinimos |-> 1]]},
     config_algo : [dias_descanso_semana : {1}, pesos : {<<>>}]]

\* months 2024-02 and 2024-13; no pins, a pin of the roster's employee, a pin of
\* an employee that is not on the roster
LlamadasGenerarHorarios ==
    [fn : {"generar_horarios"}, year : {2024}, month : {2, 13}, i : InstanciasEntrada,
     ajustes : {<<>>, [u \in {"e1"} |-> [d \in {1} |-> "M"]],
                [u \in {"e9"} |-> [d \in {1} |-> "M"]]}]

LlamarGenerarHorarios ==
    /\ fase = "llamar"
    /\ entrada.fn = "generar_horarios"
    /\ salida' \in LlamadaGenerarHorarios(entrada.year, entrada.month, entrada.i, entrada.ajustes)
    /\ fase' = "hecho"
    /\ UNCHANGED <<builderVars, serviceVars, entrada>>

MesMalFormado == entrada.month \notin 1..12

PinDeDesconocido ==
    \E u \in DOMAIN entrada.ajustes : u \notin DOMAIN EmpleadoIdx(entrada.i)

TopeNegativo ==
    \E e \in DOMAIN entrada.i.empleados :
       \/ entrada.i.empleados[e].horas_maximas_diarias < 0
       \/ entrada.i.empleados[e].horas_maximas_semanales < 0
       \/ entrada.i.empleados[e].horas_maximas_mensuales < 0

\* C20: a malformed month, a pin naming an unknown employee or a negative hour
\* cap makes the builder raise; it returns no result, neither success nor
\* infeasible.
C20_ErroresDeEntrada ==
    (fase = "hecho" /\ entrada.fn = "generar_horarios"
       /\ (MesMalFormado \/ PinDeDesconocido \/ TopeNegativo))
    => salida.excepcion # ""

\* the (date, shift) pairs of the month on which the shift is valid and at least
\* one worker is required
CoberturaPedida(i) ==
    {p \in DiasSet(i) \X TurnoIds(i) :
        /\ EsValidoParaDia(i.mes, TurnoInfo(i, p[2]), p[1])
        /\ ObtenerTrabajadoresNecesarios(i, p[1], TurnoInfo(i, p[2])) >= 1}

\* C29: a result with estado 'success' has at least one assignment for every
\* valid (date, shift) that requires a worker, whatever the roster and the
\* catalog handed to the builder.
C29_CoberturaPedidaCubierta ==
    (fase = "hecho" /\ entrada.fn = "generar_horarios" /\ salida.excepcion = ""
       /\ salida.valor.estado = "success")
    => \A p \in CoberturaPedida(entrada.i) :
          \E u \in DOMAIN salida.valor.horarios :
             /\ p[1] \in DOMAIN salida.valor.horarios[u]
             /\ salida.valor.horarios[u][p[1]] = p[2]

\* diff_horas: the spread of the hour-total variables under x; 0 if there is none
DiffHoras(i, sh, x) ==
    LET hs == {Valor(HorasSemana(i, sh, e, Dias(i)), x) : e \in EmpleadosConHoras(i, sh)}
    IN IF hs = {} THEN 0 ELSE MaxDe(hs) - MinDe(hs)

\* the feasible and the optimal assignments of a build without pins
SolucionesDe(i) ==
    Soluciones(CrearVariables(i) \cup VariablesDescanso(i, CrearVariables(i)),
               ModeloCompleto(i, CrearVariables(i), <<>>))

OptimasDe(i) ==
    Optimas(i, CrearVariables(i), DefinirFuncionObjetivo(i, CrearVariables(i)), SolucionesDe(i))

\* the roster with one more employee: no holidays, no favourites, caps out of reach
ConEmpleadoNuevo(i) ==
    [i EXCEPT !.empleados = Append(@, Empleado("nuevo", 6000, 6000, 6000, {}, <<>>))]

\* an assignment of i carried to the larger roster with the new employee idle
Ampliada(i, x) ==
    x @@ [v \in (CrearVariables(ConEmpleadoNuevo(i))
                   \cup VariablesDescanso(ConEmpleadoNuevo(i), CrearVariables(ConEmpleadoNuevo(i))))
               \ DOMAIN x |-> 0]

\* rosters of one and two employees, one or two shifts a day, a floor of 1
InstanciasEquidad ==
    [mes : {0, 5},
     empleados : {<<Empleado("e1", 480, 2400, 9600, {}, <<>>)>>,
                  <<Empleado("e1", 480, 2400, 9600, {}, <<"M">>),
                    Empleado("e2", 480, 2400, 9600, {}, <<>>)>>},
     turnos : {<<TurnoM>>, <<TurnoM, TurnoA>>, <<TurnoL, TurnoG>>},
     config_turnos : {[tiene_configuraciones |-> TRUE, configuraciones_cobertura |-> <<>>,
                       cobertura_minima |-> [trabajadoresMinimos |-> 1]]},
     config_algo : [dias_descanso_semana : {1, 2}, pesos : {<<>>}]]

LlamadasEquidad == [fn : {"equidad_horas"}, i : InstanciasEquidad]

\* the builder run on an instance and on the instance with one more employee
LlamarEquidadHoras ==
    /\ fase = "llamar"
    /\ entrada.fn = "equidad_horas"
    /\ \E S \in {SolucionesDe(entrada.i)}, T \in {SolucionesDe(ConEmpleadoNuevo(entrada.i))} :
          salida' =
             [factible |-> S # {},
              factible_mas |-> T # {},
              ampliadas |-> \A x \in S : Ampliada(entrada.i, x) \in T,
              diff |-> {DiffHoras(entrada.i, CrearVariables(entrada.i), x) :
                          x \in OptimasDe(entrada.i)},
              diff_mas |-> {DiffHoras(ConEmpleadoNuevo(entrada.i),
                                      CrearVariables(ConEmpleadoNuevo(entrada.i)), x) :
                              x \in OptimasDe(ConEmpleadoNuevo(entrada.i))}]
    /\ fase' = "hecho"
    /\ UNCHANGED <<builderVars, serviceVars, entrada>>

NombresGuardia == <<"guardia_1", "guardia_2", "guardia_3", "guardia_4">>

\* a guard turno dict: the window's date is kept in fechaEspecifica
GuardiaDict(id, inicio, fin, horas, dia_semana, fecha) ==
    [id |-> id, horaInicio |-> <<inicio \div 60, inicio % 60>>,
     horaFin |-> <<fin \div 60, fin % 60>>, duracionHoras |-> horas, tipo |-> "guardia",
     diasSemanaValidos |-> {dia_semana}, fechaEspecifica |-> <<fecha>>]

\* _dividir_turno_largo: max(2, round(total / 6 h)) pieces of total / pieces minutes,
\* each end truncated to a minute; here as (start, end) pairs in minutes
RECURSIVE DividirDesde(_, _, _, _)
DividirDesde(minutos_actual, duracion_total, num_turnos, k) ==
    IF k > num_turnos THEN <<>>
    ELSE <<<<minutos_actual, minutos_actual + (duracion_total \div num_turnos)>>>>
         \o DividirDesde(minutos_actual + (duracion_total \div num_turnos),
                         duracion_total, num_turnos, k + 1)

DividirTurnoLargo(inicio, fin) ==
    DividirDesde(inicio, fin - inicio,
                 IF (2 * (fin - inicio) + 360) \div 720 > 2
                 THEN (2 * (fin - inicio) + 360) \div 720 ELSE 2,
                 1)

\* the guard templates of the date fecha of one window, numbered from counter + 1;
\* the windows used have pieces of whole hours
GuardiasDeFecha(mes, jornada, fecha, counter) ==
    IF jornada.horaFin - jornada.horaInicio <= 6
    THEN <<GuardiaDict(NombresGuardia[counter + 1], jornada.horaInicio * 60,
                       jornada.horaFin * 60, jornada.horaFin - jornada.horaInicio,
                       IsoWeekday(mes, fecha), fecha)>>
    ELSE LET partes == DividirTurnoLargo(jornada.horaInicio * 60, jornada.horaFin * 60)
         IN [k \in DOMAIN partes |->
                GuardiaDict(NombresGuardia[counter + k], partes[k][1], partes[k][2],
                            (partes[k][2] - partes[k][1]) \div 60,
                            IsoWeekday(mes, fecha), fecha)]

\* _generar_turnos_guardia: every window, every date from fechaInicio to fechaFin
RECURSIVE GenerarGuardiasDesde(_, _, _, _, _)
GenerarGuardiasDesde(mes, jornadas, j, fecha_actual, hechos) ==
    IF j > Len(jornadas) THEN hechos
    ELSE IF fecha_actual > jornadas[j].fechaFin
         THEN IF j = Len(jornadas) THEN hechos
              ELSE GenerarGuardiasDesde(mes, jornadas, j + 1, jornadas[j + 1].fechaInicio, hechos)
         ELSE GenerarGuardiasDesde(mes, jornadas, j, fecha_actual + 1,
                 hechos \o GuardiasDeFecha(mes, jornadas[j], fecha_actual, Len(hechos)))

GenerarTurnosGuardia(mes, jornadas) ==
    IF jornadas = <<>> THEN <<>>
    ELSE GenerarGuardiasDesde(mes, jornadas, 1, jornadas[1].fechaInicio, <<>>)

\* leer_configuracion of a pharmacy that has guard windows and no coverage rules
ConfiguracionConGuardias(mes, jornadas) ==
    <<[turnos |-> GenerarTurnosGuardia(mes, jornadas),
       coberturaMinima |-> [trabajadoresMinimos |-> 1, configuracionesCobertura |-> <<>>]]>>

\* the builder the service makes from that configuration
GeneradorConGuardias(mes, empleados, jornadas) ==
    [mes |-> mes,
     empleados |-> empleados,
     turnos |-> ParsearConfiguracionTurnos(ConfiguracionConGuardias(mes, jornadas)).turnos,
     config_turnos |->
         ParsearConfiguracionTurnos(ConfiguracionConGuardias(mes, jornadas)).config_turnos,
     config_algo |-> ParsearConfiguracionAlgoritmo(ConfiguracionConGuardias(mes, jornadas))]

Jornada(inicio, fin, hora_inicio, hora_fin) ==
    [fechaInicio |-> inicio, fechaFin |-> fin, horaInicio |-> hora_inicio, horaFin |-> hora_fin]

\* a four-hour guard on day 2, a twelve-hour guard on day 2, four-hour guards on
\* days 2 and 3
LlamadasGuardias ==
    [fn : {"guardias"}, mes : Meses,
     empleados : {<<Empleado("e1", 480, 2400, 9600, {}, <<>>),
                    Empleado("e2", 480, 2400, 9600, {}, <<>>)>>},
     jornadas : {<<Jornada(2, 2, 13, 17)>>, <<Jornada(2, 2, 9, 21)>>, <<Jornada(2, 3, 13, 17)>>}]

\* the variables the service's builder creates and what its generar_horarios gives
LlamarGuardias ==
    /\ fase = "llamar"
    /\ entrada.fn = "guardias"
    /\ \E i \in {GeneradorConGuardias(entrada.mes, entrada.empleados, entrada.jornadas)} :
       \E r \in GenerarHorarios(i, <<>>) :
          salida' = [plantillas |-> GenerarTurnosGuardia(entrada.mes, entrada.jornadas),
                     variables |-> CrearVariables(i),
                     resultado |-> IF r = Excepcion THEN Lanza("AttributeError")
                                   ELSE Devuelve(r)]
    /\ fase' = "hecho"
    /\ UNCHANGED <<builderVars, serviceVars, entrada>>

\* the position of the synthesized guard template with the given id
IndiceDeGuardia(plantillas, id) ==
    CHOOSE k \in DOMAIN plantillas : plantillas[k].id = id

\* C22: for a catalog synthesized from guard windows and loaded through the
\* service's parser, the builder has a variable for (employee, date, guard) only
\* on the guard's fixed date, and a successful output assigns every guard to
\* exactly one employee on its date and to nobody on another date, the guard
\* counts summing to the number of guard templates.
C22_GuardiasEnSuFecha ==
    (fase = "hecho" /\ entrada.fn = "guardias") =>
        /\ \A v \in salida.variables :
              salida.plantillas[IndiceDeGuardia(salida.plantillas, v[4])].fechaEspecifica
                 = <<v[3]>>
        /\ (salida.resultado.excepcion = "" /\ salida.resultado.valor.estado = "success") =>
              /\ \A k \in DOMAIN salida.plantillas :
                    Cardinality({u \in DOMAIN salida.resultado.valor.horarios :
                        /\ salida.plantillas[k].fechaEspecifica[1]
                              \in DOMAIN salida.resultado.valor.horarios[u]
                        /\ salida.resultado.valor.horarios[u]
                              [salida.plantillas[k].fechaEspecifica[1]]
                              = salida.plantillas[k].id}) = 1
              /\ SumaSobre(DOMAIN salida.resultado.valor.guardias_por_empleado,
                           salida.resultado.valor.guardias_por_empleado)
                    = Len(salida.plantillas)

\* the keys of cobertura_minima whose value is a list, not a number
ClavesDeLista == {"configuracionesCobertura"}

\* the catalog as a mapping from turno id to template
TurnosPorId(turnos) ==
    [id \in {turnos[k].id : k \in DOMAIN turnos} |->
        turnos[CHOOSE k \in DOMAIN turnos : turnos[k].id = id]]

\* dias_mes: 31, 30 for April, June, September and November, and for February 29
\* in the years divisible by 4
DiasMesAproximado(year, month) ==
    IF month \in {4, 6, 9, 11} THEN 30
    ELSE IF month = 2 THEN (IF year % 4 = 0 THEN 29 ELSE 28)
    ELSE 31

\* validar_configuracion: max() over the values of cobertura_minima raises
\* ValueError for an empty mapping and TypeError when a number meets a list;
\* durations and monthly caps are minutes
ValidarConfiguracion(empleados, turnos, cobertura_minima, year, month) ==
    IF DOMAIN cobertura_minima = {} THEN Lanza("ValueError")
    ELSE IF DOMAIN cobertura_minima \cap ClavesDeLista # {}
            /\ DOMAIN cobertura_minima \ ClavesDeLista # {}
    THEN Lanza("TypeError")
    ELSE LET max_cobertura == MaxDe({cobertura_minima[k] : k \in DOMAIN cobertura_minima})
             dias_mes == DiasMesAproximado(year, month)
             porId == TurnosPorId(turnos)
             conTurno == DOMAIN cobertura_minima \cap DOMAIN porId
             horas_requeridas_dia ==
                 SumaSobre(conTurno,
                           [k \in conTurno |-> porId[k].duracion_min * cobertura_minima[k]])
             horas_disponibles_mes ==
                 SumaSobre(DOMAIN empleados,
                           [e \in DOMAIN empleados |-> empleados[e].horas_maximas_mensuales])
             errors == IF Len(empleados) < max_cobertura THEN {"empleados"} ELSE {}
             warnings ==
                 (IF 5 * horas_disponibles_mes < 4 * horas_requeridas_dia * dias_mes
                  THEN {"horas"} ELSE {})
                 \cup (IF \E e \in DOMAIN empleados :
                            10 * Cardinality(empleados[e].festivos_personales) > 3 * dias_mes
                       THEN {"festivos"} ELSE {})
         IN Devuelve([factible |-> errors = {}, errors |-> errors, warnings |-> warnings])

\* the validate endpoint: employees and configuration read from the database and
\* parsed, then validar_configuracion
ValidarConfiguracionEndpoint(c, year, month) ==
    ValidarConfiguracion(LeerEmpleados(c),
                         ParsearConfiguracionTurnos(LeerConfiguracion(c)).turnos,
                         ParsearConfiguracionTurnos(LeerConfiguracion(c)).config_turnos
                            .cobertura_minima,
                         year, month)

\* rosters of one and two employees: caps of 160 h and of 20 h a month, nobody or
\* somebody with ten personal holidays
PlantillasValidar ==
    {<<Empleado("e1", 480, 2400, 9600, {}, <<>>)>>,
     <<Empleado("e1", 480, 2400, 1200, 1..10, <<>>)>>,
     <<Empleado("e1", 480, 2400, 9600, {}, <<>>), Empleado("e2", 480, 2400, 9600, 1..9, <<>>)>>}

\* validar_configuracion called with a mapping turno id -> headcount, and the
\* endpoint called on the databases that have employees and a pharmacy
LlamadasValidar ==
    [fn : {"validar_configuracion"}, via : {"directa"}, empleados : PlantillasValidar,
     turnos : {<<TurnoM, TurnoA>>},
     cobertura_minima : {[M |-> 1, A |-> 1], [M |-> 2, A |-> 1], [M |-> 1, Z |-> 3]},
     bd : {<<>>}, year : {2023, 2024}, month : {1, 2, 4}]
    \cup [fn : {"validar_configuracion"}, via : {"servicio"}, empleados : {<<>>},
          turnos : {<<>>}, cobertura_minima : {<<>>},
          bd : {<<b>> : b \in {c \in BasesDeDatos :
                                 c.conectado /\ c.usuarios # <<>> /\ c.farmacia # <<>>}},
          year : {2024}, month : {2}]

LlamarValidarConfiguracion ==
    /\ fase = "llamar"
    /\ entrada.fn = "validar_configuracion"
    /\ salida' = IF entrada.via = "directa"
                 THEN ValidarConfiguracion(entrada.empleados, entrada.turnos,
                                           entrada.cobertura_minima, entrada.year, entrada.month)
                 ELSE ValidarConfiguracionEndpoint(entrada.bd[1], entrada.year, entrada.month)
    /\ fase' = "hecho"
    /\ UNCHANGED <<builderVars, serviceVars, entrada>>

\* the employees validated and the largest headcount the configuration requires
EmpleadosValidados ==
    IF entrada.via = "directa" THEN entrada.empleados ELSE LeerEmpleados(entrada.bd[1])

MaximoRequerido ==
    IF entrada.via = "directa"
    THEN MaxDe({entrada.cobertura_minima[k] : k \in DOMAIN entrada.cobertura_minima})
    ELSE MaxDe({entrada.bd[1].farmacia[1].trabajadoresMinimos}
               \cup {entrada.bd[1].farmacia[1].configuracionesCobertura[k].trabajadoresMinimos :
                       k \in DOMAIN entrada.bd[1].farmacia[1].configuracionesCobertura})

\* C24: validation builds no model and returns {factible, errors, warnings} with
\* factible true exactly when errors is empty; there is an error exactly when
\* the employees are fewer than the largest required headcount.
C24_ValidarConfiguracion ==
    (fase = "hecho" /\ entrada.fn = "validar_configuracion") =>
        /\ model = {} /\ shifts = {} /\ status = "none"
        /\ salida.excepcion = ""
        /\ salida.valor.factible <=> salida.valor.errors = {}
        /\ salida.valor.errors # {} <=> Len(EmpleadosValidados) < MaximoRequerido

\* coverage rules of 1 to 24 hours, for the weekend and for Monday to Friday
ReglasSintesis ==
    {r \in [diasSemana : {{0, 6}, 1..5}, horaInicio : {0, 8, 9, 15},
            horaFin : {9, 14, 15, 16, 17, 22, 24}, trabajadoresMinimos : {1, 2}] :
        r.horaFin > r.horaInicio}

LlamadasSintesis == [fn : {"generar_turnos_desde_cobertura"}, regla : ReglasSintesis]

LlamarGenerarTurnosDesdeCobertura ==
    /\ fase = "llamar"
    /\ entrada.fn = "generar_turnos_desde_cobertura"
    /\ salida' = GenerarTurnosDesdeCobertura(<<entrada.regla>>)
    /\ fase' = "hecho"
    /\ UNCHANGED <<builderVars, serviceVars, entrada>>

ModeloDuro(i, sh) ==
    AplicarRestriccionesCobertura(i, sh) \cup AplicarRestriccionesHorasMaximas(i, sh)
    \cup AplicarRestriccionesDescanso(i, sh) \cup AplicarRestriccionesFestivosPersonales(i, sh)
    \cup AplicarRestriccionUnTurnoPorDia(i, sh)

\* two guard templates of four hours that are valid on every date
TurnoG1 == Turno("G1", <<9, 0>>, <<13, 0>>, 240, "guardia", {}, <<>>)
TurnoG2 == Turno("G2", <<13, 0>>, <<17, 0>>, 240, "guardia", {}, <<>>)

\* one or two employees; a single dated guard next to a labour shift, or two
\* guards a day
InstanciasGuardias ==
    [mes : {0, 5},
     empleados : {<<Empleado("e1", 480, 2400, 9600, {}, <<>>)>>,
                  <<Empleado("e1", 480, 2400, 9600, {}, <<>>),
                    Empleado("e2", 480, 2400, 9600, {}, <<>>)>>},
     turnos : {<<TurnoL, TurnoG>>, <<TurnoG1, TurnoG2>>},
     config_turnos : {[tiene_configuraciones |-> TRUE, configuraciones_cobertura |-> <<>>,
                       cobertura_minima |-> [trabajadoresMinimos |-> 1]]},
     config_algo : [dias_descanso_semana : {1, 2}, pesos : {<<>>}]]

LlamadasObjetivo == [fn : {"definir_funcion_objetivo"}, i : InstanciasGuardias]

\* the assignments that satisfy the hard constraints, before and after
\* _definir_funcion_objetivo has added its variables
LlamarDefinirFuncionObjetivo ==
    /\ fase = "llamar"
    /\ entrada.fn = "definir_funcion_objetivo"
    /\ \E sh \in {CrearVariables(entrada.i)} :
       \E D \in {Soluciones(sh \cup VariablesDescanso(entrada.i, sh), ModeloDuro(entrada.i, sh))},
          T \in {Soluciones(sh \cup VariablesDescanso(entrada.i, sh),
                            ModeloDuro(entrada.i, sh) \cup RestriccionesObjetivo(entrada.i, sh))} :
          salida' = [duras |-> Cardinality(D),
                     con_objetivo |-> Cardinality(T),
                     excluidas |-> D \ T # {},
                     max_guardias |->
                        IF D = {} THEN 0
                        ELSE MaxDe({Valor(Guardias(entrada.i, sh, e), x) :
                                      e \in 1..NumEmpleados(entrada.i), x \in D})]
    /\ fase' = "hecho"
    /\ UNCHANGED <<builderVars, serviceVars, entrada>>

\* C27: the objective builder excludes no assignment that satisfies the hard
\* constraints.
C27_ObjetivoSinRestriccion ==
    (fase = "hecho" /\ entrada.fn = "definir_funcion_objetivo") =>
        /\ ~salida.excluidas
        /\ salida.con_objetivo = salida.duras

Llamadas == LlamadasValidez \cup LlamadasSolape \cup LlamadasRequeridos \cup LlamadasDiaSemana
                \cup LlamadasDiasMes \cup LlamadasSemanas
                \cup LlamadasGenerarHorarios \cup LlamadasEquidad
                \cup LlamadasGuardias \cup LlamadasValidar
                \cup LlamadasSintesis \cup LlamadasObjetivo

InitFunciones ==
    /\ BuilderParado
    /\ ServicioParado
    /\ entrada \in Llamadas
    /\ salida = <<>>
    /\ fase = "llamar"

NextFunciones ==
    \/ LlamarEsValidoParaDia
    \/ LlamarSeSolapaCon
    \/ LlamarObtenerTrabajadoresNecesarios
    \/ LlamarDiaSemana
    \/ LlamarCalcularDiasMes
    \/ LlamarAgruparPorSemanas
    \/ LlamarGenerarHorarios
    \/ LlamarEquidadHoras
    \/ LlamarGuardias
    \/ LlamarValidarConfiguracion
    \/ LlamarGenerarTurnosDesdeCobertura
    \/ LlamarDefinirFuncionObjetivo

SpecFunciones == InitFunciones /\ [][NextFunciones]_vars

====
